---- MODULE Spec2Model ----
(***************************************************************************)
(* Authentication / session-token subsystem of the LMS backend:           *)
(* register, login, refresh, forget-password, reset-password services and  *)
(* the get_current_user and check_permission dependencies, over the        *)
(* `users` table.                                                          *)
(*                                                                         *)
(* Strings that the code converts (emails, the user_id claim) are          *)
(* sequences of one-character strings, so that lower(), strip(), str()     *)
(* and int() are computed, not assumed.                                    *)
(* Time is counted in ticks of 1/Res second; python-jose stores `exp` and  *)
(* reads the clock in whole seconds.                                       *)
(***************************************************************************)
EXTENDS Integers, Sequences, FiniteSets, TLC

\* ---------------------------------------------------------------- bounds
\* largest primary key the users table hands out in a run
MaxUsers == 3
\* clock ticks per second (sub-second resolution of datetime.utcnow())
Res == 2
\* tokens offered as request input were issued at ticks 0..MaxIssueTick
MaxIssueTick == 1
\* concurrent register requests
MaxProcs == 2
\* successful uses of one reset link that a session run counts
MaxResetUses == 2
\* largest primary key the students table hands out in a run
MaxStudents == 2
\* largest primary key the courses table hands out in a run
MaxCourses == 4

\* ------------------------------------------------------ program constants
HTTP_200_OK == 200
HTTP_201_CREATED == 201
HTTP_400_BAD_REQUEST == 400
HTTP_401_UNAUTHORIZED == 401
HTTP_403_FORBIDDEN == 403
HTTP_404_NOT_FOUND == 404
HTTP_500_INTERNAL_SERVER_ERROR == 500

USER_CREATED == "User created successfully"
PASSWORD_CHANGED_SUCCESS == "Password changed successfully. You now have full access to the platform."
LOGIN_SUCCESS == "Login successful"
REFRESH_TOKEN_SUCCESS == "Token refreshed successfully"
USER_NOT_FOUND == "User not found"
INVALID_EMAIL_OR_PASSWORD == "Invalid email or password"
USER_INACTIVE == "User account is inactive"
USER_ALREADY_EXISTS == "User with this email already exists"
SOMETHING_WENT_WRONG == "Something went wrong, Please try again later!"
INVALID_REFRESH_TOKEN == "Invalid or expired refresh token"
FORGET_PASSWORD_SUCCESS == "Password reset link has been sent to your email address. Please check your inbox."

JWT_ACCESS_TOKEN_EXPIRE_MINUTES == 30
JWT_REFRESH_TOKEN_EXPIRE_DAYS == 7
\* timedelta(hours=1) of create_password_reset_token
RESET_TOKEN_EXPIRE_HOURS == 1

\* lifetimes in seconds
AccessLifetime == JWT_ACCESS_TOKEN_EXPIRE_MINUTES * 60
RefreshLifetime == JWT_REFRESH_TOKEN_EXPIRE_DAYS * 24 * 60 * 60
ResetLifetime == RESET_TOKEN_EXPIRE_HOURS * 60 * 60

\* ---------------------------------------------------------------- strings
\* Python None, as a value comparable with the string values
None == <<"<None>">>
EmptyStr == <<>>

\* not x, for x a str or None
Falsy(x) == x = None \/ x = EmptyStr

UpperCase == <<"A", "B", "D", "E", "G", "I", "L", "M", "N", "S", "T">>
LowerCase == <<"a", "b", "d", "e", "g", "i", "l", "m", "n", "s", "t">>

\* the letters the inputs are written in; every other character is kept
LowerChar(c) ==
    IF \E i \in 1..Len(UpperCase) : UpperCase[i] = c
    THEN LowerCase[CHOOSE i \in 1..Len(UpperCase) : UpperCase[i] = c]
    ELSE c

\* str.lower()
Lower(s) == [i \in 1..Len(s) |-> LowerChar(s[i])]

RECURSIVE LStrip(_)
LStrip(s) == IF s # <<>> /\ Head(s) = " " THEN LStrip(Tail(s)) ELSE s

RECURSIVE RStrip(_)
RStrip(s) == IF s # <<>> /\ s[Len(s)] = " " THEN RStrip(SubSeq(s, 1, Len(s) - 1)) ELSE s

\* str.strip()
Strip(s) == RStrip(LStrip(s))

\* variant: the email is trimmed but its case is kept
NormalizeEmail_CaseKept(raw) == Strip(raw)

\* email = data.email.lower().strip()
NormalizeEmail(raw) == Strip(Lower(raw))

Digits == <<"0", "1", "2", "3", "4", "5", "6", "7", "8", "9">>

RECURSIVE IntToStr(_)
\* str(n) for n >= 0
IntToStr(n) == IF n < 10 THEN <<Digits[n + 1]>>
               ELSE IntToStr(n \div 10) \o <<Digits[(n % 10) + 1]>>

DigitVal(c) == CHOOSE d \in 0..9 : Digits[d + 1] = c

IsDigitStr(s) == s # None /\ s # <<>> /\ \A i \in 1..Len(s) : \E d \in 1..10 : Digits[d] = s[i]

RECURSIVE StrToIntAcc(_, _)
StrToIntAcc(s, acc) == IF s = <<>> THEN acc
                       ELSE StrToIntAcc(Tail(s), acc * 10 + DigitVal(Head(s)))

\* int(s); -1 stands for the ValueError / TypeError branch
StrToInt(s) == IF IsDigitStr(s) THEN StrToIntAcc(s, 0) ELSE -1

\* request emails: the same address in different case / padding, and another
RawEmails == { <<"a">>, <<"A">>, <<" ", "a", " ">>, <<"b">>, <<"B", " ">> }
Emails == { NormalizeEmail(r) : r \in RawEmails }
Passwords == { "pw1", "pw2" }
Salts == { "s1", "s2" }

\* --------------------------------------------------------- password hasher
\* variant: the password is stored as it was given
hash_password_Plain(password, salt) == [alg |-> "plain", salt |-> salt, digest |-> <<salt, password>>]

\* bcrypt.hashpw(password, salt): the salt is carried in the hash
hash_password(password, salt) == [alg |-> "bcrypt", salt |-> salt, digest |-> <<salt, password>>]

\* variant: every password is taken for the stored one
verify_password_Always(plain, hashed) == TRUE

\* bcrypt.checkpw re-hashes the plaintext with the salt of the stored hash
verify_password(plain, hashed) == hash_password(plain, hashed.salt).digest = hashed.digest

\* ------------------------------------------------------------------ tokens
TokenTypes == { "none", "refresh", "password_reset" }

\* seconds of a clock reading: timegm(dt.utctimetuple()) drops the fraction
Seconds(tick) == tick \div Res

\* jwt.encode of claims + exp/iat (+ type); "none" is an absent type claim
MkToken(uid, email, type, exp, iat) ==
    [user_id |-> uid, email |-> email, type |-> type, exp |-> exp, iat |-> iat, signed |-> TRUE]

NoToken == [type |-> "absent"]

create_access_token(uid, email, now) ==
    MkToken(uid, email, "none", Seconds(now + AccessLifetime * Res), Seconds(now))

create_refresh_token(uid, email, now) ==
    MkToken(uid, email, "refresh", Seconds(now + RefreshLifetime * Res), Seconds(now))

\* data carries "type": "password_reset" already; update() writes it again
create_password_reset_token(uid, email, now) ==
    MkToken(uid, email, "password_reset", Seconds(now + ResetLifetime * Res), Seconds(now))

\* jose: if exp < now: raise ExpiredSignatureError
JwtExpired(tok, now) == tok.exp < Seconds(now)

\* jwt.decode: "bad" = JWTError, "expired" = ExpiredSignatureError, else "ok"
JwtDecode(tok, now) ==
    IF ~tok.signed THEN "bad"
    ELSE IF JwtExpired(tok, now) THEN "expired"
    ELSE "ok"

\* a bearer string: optional "Bearer " prefix, then the encoded token
StripBearer(cred) == cred.tok

\* JWTHandler.verify_token: "ok" or the 401 it raises
verify_token(cred, now) == JwtDecode(StripBearer(cred), now)

\* variant: the type claim is not looked at
verify_refresh_token_AnyType(cred, now) == JwtDecode(StripBearer(cred), now)

\* variant: a refresh token is honoured only in the second it was issued in
verify_refresh_token_SameSecond(cred, now) ==
    LET tok == StripBearer(cred)
        d == JwtDecode(tok, now)
    IN IF d # "ok" THEN d
       ELSE IF tok.type # "refresh" THEN "wrong_type"
       ELSE IF tok.iat # Seconds(now) THEN "expired"
       ELSE "ok"

\* JWTHandler.verify_refresh_token: the wrong-type HTTPException is raised
\* inside the try and is not a JWTError, so it propagates as is
verify_refresh_token(cred, now) ==
    LET tok == StripBearer(cred)
        d == JwtDecode(tok, now)
    IN IF d # "ok" THEN d
       ELSE IF tok.type # "refresh" THEN "wrong_type"
       ELSE "ok"

\* ------------------------------------------------------------- users table
\* Users row: id, email, password (a hash), is_active, is_verified;
\* refresh_token and refresh_token_expires_at are nullable columns no insert
\* names, so a new row has NULL in both
UserRow(id, email, password, active, verified) ==
    [id |-> id, email |-> email, password |-> password,
     refresh_token |-> None, refresh_token_expires_at |-> None,
     is_active |-> active, is_verified |-> verified]

NoUser == [id |-> 0]

\* select(Users).where(Users.email == email).limit(1) ... scalar_one_or_none()
get_user_by_email_for_login(tbl, email) ==
    IF \E u \in tbl : u.email = email
    THEN CHOOSE u \in tbl : u.email = email
    ELSE NoUser

get_user_by_email_for_password_reset(tbl, email) ==
    IF \E u \in tbl : u.email = email
    THEN CHOOSE u \in tbl : u.email = email
    ELSE NoUser

\* select(Users)...where(Users.id == user_id_int).limit(1)
get_user_by_id(tbl, id) ==
    IF \E u \in tbl : u.id = id
    THEN CHOOSE u \in tbl : u.id = id
    ELSE NoUser

\* variant: the update is never committed
update_user_password_KeepOld(tbl, id, hashed) == tbl

\* variant: the update marks the account verified as well
update_user_password_Verify(tbl, id, hashed) ==
    { IF u.id = id THEN [u EXCEPT !.password = hashed, !.is_verified = TRUE] ELSE u : u \in tbl }

\* update(Users).where(Users.id == user_id).values(password=...); commit
update_user_password(tbl, id, hashed) ==
    { IF u.id = id THEN [u EXCEPT !.password = hashed] ELSE u : u \in tbl }

\* --------------------------------------------------------------- responses
\* StandardResponse(...).make: status is recomputed from the status code
StandardResponse(code, message, user, access, refresh) ==
    [code |-> code,
     status |-> IF code \in {HTTP_201_CREATED, HTTP_200_OK} THEN "success" ELSE "fail",
     message |-> message, user |-> user, access |-> access, refresh |-> refresh]

\* data = STATUS_NULL ({})
Plain(code, message) == StandardResponse(code, message, 0, NoToken, NoToken)

\* collaborator failures a request can meet
Faults == { "none", "db", "hash", "token", "render", "send", "refetch" }

\* ------------------------------------------------------------------- login
\* variant: an unknown email is answered 404 "User not found"
login_user_service_NotFound(tbl, now, raw, password, f) ==
    LET email == NormalizeEmail(raw)
        user == get_user_by_email_for_login(tbl, email)
    IN IF f = "db" THEN Plain(HTTP_500_INTERNAL_SERVER_ERROR, SOMETHING_WENT_WRONG)
       ELSE IF user = NoUser THEN Plain(HTTP_404_NOT_FOUND, USER_NOT_FOUND)
       ELSE IF ~user.is_active THEN Plain(HTTP_403_FORBIDDEN, USER_INACTIVE)
       ELSE IF f = "hash" \/ ~verify_password(password, user.password)
            THEN Plain(HTTP_401_UNAUTHORIZED, INVALID_EMAIL_OR_PASSWORD)
       ELSE IF f = "token" THEN Plain(HTTP_500_INTERNAL_SERVER_ERROR, SOMETHING_WENT_WRONG)
       ELSE StandardResponse(HTTP_200_OK, LOGIN_SUCCESS, user.id,
                             create_access_token(IntToStr(user.id), user.email, now),
                             create_refresh_token(IntToStr(user.id), user.email, now))

\* checkpw raising is caught inside verify_password, which then returns False
login_user_service(tbl, now, raw, password, f) ==
    LET email == NormalizeEmail(raw)
        user == get_user_by_email_for_login(tbl, email)
    IN IF f = "db" THEN Plain(HTTP_500_INTERNAL_SERVER_ERROR, SOMETHING_WENT_WRONG)
       ELSE IF user = NoUser THEN Plain(HTTP_401_UNAUTHORIZED, INVALID_EMAIL_OR_PASSWORD)
       ELSE IF ~user.is_active THEN Plain(HTTP_403_FORBIDDEN, USER_INACTIVE)
       ELSE IF f = "hash" \/ ~verify_password(password, user.password)
            THEN Plain(HTTP_401_UNAUTHORIZED, INVALID_EMAIL_OR_PASSWORD)
       ELSE IF f = "token" THEN Plain(HTTP_500_INTERNAL_SERVER_ERROR, SOMETHING_WENT_WRONG)
       ELSE StandardResponse(HTTP_200_OK, LOGIN_SUCCESS, user.id,
                             create_access_token(IntToStr(user.id), user.email, now),
                             create_refresh_token(IntToStr(user.id), user.email, now))

\* ----------------------------------------------------------------- refresh
\* every exception, the verifier's HTTPException included, is answered 401
refresh_token_service(tbl, now, cred, f) ==
    LET tok == StripBearer(cred)
        user == get_user_by_email_for_login(tbl, tok.email)
    IN IF verify_refresh_token(cred, now) # "ok"
       THEN Plain(HTTP_401_UNAUTHORIZED, INVALID_REFRESH_TOKEN)
       ELSE IF Falsy(tok.user_id) \/ Falsy(tok.email)
            THEN Plain(HTTP_401_UNAUTHORIZED, INVALID_REFRESH_TOKEN)
       ELSE IF f = "db" THEN Plain(HTTP_401_UNAUTHORIZED, INVALID_REFRESH_TOKEN)
       ELSE IF user = NoUser THEN Plain(HTTP_401_UNAUTHORIZED, USER_NOT_FOUND)
       ELSE IF ~user.is_active THEN Plain(HTTP_403_FORBIDDEN, USER_INACTIVE)
       ELSE IF f = "token" THEN Plain(HTTP_401_UNAUTHORIZED, INVALID_REFRESH_TOKEN)
       ELSE StandardResponse(HTTP_200_OK, REFRESH_TOKEN_SUCCESS, 0,
                             create_access_token(IntToStr(user.id), user.email, now),
                             create_refresh_token(IntToStr(user.id), user.email, now))

\* --------------------------------------------------------- forget password
\* result: the response and the email handed to send_email (NoMail if none)
NoMail == [to |-> None]

\* variant: the reset mail is sent to inactive accounts too
forget_password_service_NoGate(tbl, now, raw, f) ==
    LET email == NormalizeEmail(raw)
        user == get_user_by_email_for_password_reset(tbl, email)
        ok == Plain(HTTP_200_OK, FORGET_PASSWORD_SUCCESS)
        err == Plain(HTTP_500_INTERNAL_SERVER_ERROR, SOMETHING_WENT_WRONG)
    IN IF f = "db" THEN [resp |-> err, mail |-> NoMail]
       ELSE IF user = NoUser THEN [resp |-> ok, mail |-> NoMail]
       ELSE IF f = "token" THEN [resp |-> err, mail |-> NoMail]
       ELSE IF f = "render" THEN [resp |-> err, mail |-> NoMail]
       ELSE IF f = "send" THEN [resp |-> err, mail |-> NoMail]
       ELSE [resp |-> ok,
             mail |-> [to |-> user.email,
                       token |-> create_password_reset_token(IntToStr(user.id), user.email, now)]]


forget_password_service(tbl, now, raw, f) ==
    LET email == NormalizeEmail(raw)
        user == get_user_by_email_for_password_reset(tbl, email)
        ok == Plain(HTTP_200_OK, FORGET_PASSWORD_SUCCESS)
        err == Plain(HTTP_500_INTERNAL_SERVER_ERROR, SOMETHING_WENT_WRONG)
    IN IF f = "db" THEN [resp |-> err, mail |-> NoMail]
       ELSE IF user = NoUser THEN [resp |-> ok, mail |-> NoMail]
       ELSE IF ~user.is_active THEN [resp |-> ok, mail |-> NoMail]
       ELSE IF f = "token" THEN [resp |-> err, mail |-> NoMail]
       ELSE IF f = "render" THEN [resp |-> err, mail |-> NoMail]
       ELSE IF f = "send" THEN [resp |-> err, mail |-> NoMail]
       ELSE [resp |-> ok,
             mail |-> [to |-> user.email,
                       token |-> create_password_reset_token(IntToStr(user.id), user.email, now)]]

\* ---------------------------------------------------------- reset password
\* variant: no is_active gate before the password is changed
reset_password_service_NoGate(tbl, now, cred, new_password, salt, f) ==
    LET tok == StripBearer(cred)
        user == get_user_by_email_for_password_reset(tbl, tok.email)
        bad == Plain(HTTP_400_BAD_REQUEST, INVALID_REFRESH_TOKEN)
        err == Plain(HTTP_500_INTERNAL_SERVER_ERROR, SOMETHING_WENT_WRONG)
    IN IF verify_token(cred, now) # "ok" THEN [resp |-> bad, users |-> tbl]
       ELSE IF tok.type # "password_reset" THEN [resp |-> bad, users |-> tbl]
       ELSE IF Falsy(tok.user_id) \/ Falsy(tok.email) THEN [resp |-> bad, users |-> tbl]
       ELSE IF f = "db" THEN [resp |-> err, users |-> tbl]
       ELSE IF user = NoUser
            THEN [resp |-> Plain(HTTP_404_NOT_FOUND, USER_NOT_FOUND), users |-> tbl]
       ELSE IF IntToStr(user.id) # tok.user_id THEN [resp |-> bad, users |-> tbl]
       ELSE IF f = "hash" THEN [resp |-> err, users |-> tbl]
       ELSE IF f = "refetch"
            THEN [resp |-> err,
                  users |-> update_user_password(tbl, user.id, hash_password(new_password, salt))]
       ELSE [resp |-> Plain(HTTP_200_OK, PASSWORD_CHANGED_SUCCESS),
             users |-> update_user_password(tbl, user.id, hash_password(new_password, salt))]

\* variant: the looked-up user's id is not compared with the user_id claim
reset_password_service_NoCrossCheck(tbl, now, cred, new_password, salt, f) ==
    LET tok == StripBearer(cred)
        user == get_user_by_email_for_password_reset(tbl, tok.email)
        bad == Plain(HTTP_400_BAD_REQUEST, INVALID_REFRESH_TOKEN)
        err == Plain(HTTP_500_INTERNAL_SERVER_ERROR, SOMETHING_WENT_WRONG)
    IN IF verify_token(cred, now) # "ok" THEN [resp |-> bad, users |-> tbl]
       ELSE IF tok.type # "password_reset" THEN [resp |-> bad, users |-> tbl]
       ELSE IF Falsy(tok.user_id) \/ Falsy(tok.email) THEN [resp |-> bad, users |-> tbl]
       ELSE IF f = "db" THEN [resp |-> err, users |-> tbl]
       ELSE IF user = NoUser
            THEN [resp |-> Plain(HTTP_404_NOT_FOUND, USER_NOT_FOUND), users |-> tbl]
       ELSE IF ~user.is_active
            THEN [resp |-> Plain(HTTP_403_FORBIDDEN, USER_INACTIVE), users |-> tbl]
       ELSE IF f = "hash" THEN [resp |-> err, users |-> tbl]
       ELSE IF f = "refetch"
            THEN [resp |-> err,
                  users |-> update_user_password(tbl, user.id, hash_password(new_password, salt))]
       ELSE [resp |-> Plain(HTTP_200_OK, PASSWORD_CHANGED_SUCCESS),
             users |-> update_user_password(tbl, user.id, hash_password(new_password, salt))]

\* variant: the type claim of the token is not looked at
reset_password_service_AnyType(tbl, now, cred, new_password, salt, f) ==
    LET tok == StripBearer(cred)
        user == get_user_by_email_for_password_reset(tbl, tok.email)
        bad == Plain(HTTP_400_BAD_REQUEST, INVALID_REFRESH_TOKEN)
        err == Plain(HTTP_500_INTERNAL_SERVER_ERROR, SOMETHING_WENT_WRONG)
    IN IF verify_token(cred, now) # "ok" THEN [resp |-> bad, users |-> tbl]
       ELSE IF Falsy(tok.user_id) \/ Falsy(tok.email) THEN [resp |-> bad, users |-> tbl]
       ELSE IF f = "db" THEN [resp |-> err, users |-> tbl]
       ELSE IF user = NoUser
            THEN [resp |-> Plain(HTTP_404_NOT_FOUND, USER_NOT_FOUND), users |-> tbl]
       ELSE IF IntToStr(user.id) # tok.user_id THEN [resp |-> bad, users |-> tbl]
       ELSE IF ~user.is_active
            THEN [resp |-> Plain(HTTP_403_FORBIDDEN, USER_INACTIVE), users |-> tbl]
       ELSE IF f = "hash" THEN [resp |-> err, users |-> tbl]
       ELSE IF f = "refetch"
            THEN [resp |-> err,
                  users |-> update_user_password(tbl, user.id, hash_password(new_password, salt))]
       ELSE [resp |-> Plain(HTTP_200_OK, PASSWORD_CHANGED_SUCCESS),
             users |-> update_user_password(tbl, user.id, hash_password(new_password, salt))]

\* result: the response and the users table after the call
reset_password_service(tbl, now, cred, new_password, salt, f) ==
    LET tok == StripBearer(cred)
        user == get_user_by_email_for_password_reset(tbl, tok.email)
        bad == Plain(HTTP_400_BAD_REQUEST, INVALID_REFRESH_TOKEN)
        err == Plain(HTTP_500_INTERNAL_SERVER_ERROR, SOMETHING_WENT_WRONG)
    IN IF verify_token(cred, now) # "ok" THEN [resp |-> bad, users |-> tbl]
       ELSE IF tok.type # "password_reset" THEN [resp |-> bad, users |-> tbl]
       ELSE IF Falsy(tok.user_id) \/ Falsy(tok.email) THEN [resp |-> bad, users |-> tbl]
       ELSE IF f = "db" THEN [resp |-> err, users |-> tbl]
       ELSE IF user = NoUser
            THEN [resp |-> Plain(HTTP_404_NOT_FOUND, USER_NOT_FOUND), users |-> tbl]
       ELSE IF IntToStr(user.id) # tok.user_id THEN [resp |-> bad, users |-> tbl]
       ELSE IF ~user.is_active
            THEN [resp |-> Plain(HTTP_403_FORBIDDEN, USER_INACTIVE), users |-> tbl]
       ELSE IF f = "hash" THEN [resp |-> err, users |-> tbl]
       ELSE IF f = "refetch"
            THEN [resp |-> err,
                  users |-> update_user_password(tbl, user.id, hash_password(new_password, salt))]
       ELSE [resp |-> Plain(HTTP_200_OK, PASSWORD_CHANGED_SUCCESS),
             users |-> update_user_password(tbl, user.id, hash_password(new_password, salt))]

\* -------------------------------------------------------- get_current_user
\* variant: whoever the token names, the row with the first id is returned
get_current_user_FirstUser(tbl, now, cred, f) ==
    LET tok == StripBearer(cred)
        user_id_int == StrToInt(tok.user_id)
        v == verify_token(cred, now)
    IN IF v = "expired" THEN Plain(HTTP_401_UNAUTHORIZED, "Token has expired")
       ELSE IF v # "ok" THEN Plain(HTTP_401_UNAUTHORIZED, "Could not validate credentials")
       ELSE IF Falsy(tok.user_id)
            THEN Plain(HTTP_401_UNAUTHORIZED, "Invalid token: no user_id found")
       ELSE IF user_id_int = -1
            THEN Plain(HTTP_401_UNAUTHORIZED, "Invalid token: invalid user_id format")
       ELSE IF f = "db" THEN Plain(HTTP_401_UNAUTHORIZED, "Could not validate credentials")
       ELSE IF tbl = {} THEN Plain(HTTP_401_UNAUTHORIZED, "User not found")
       ELSE StandardResponse(HTTP_200_OK, "authenticated", 1, NoToken, NoToken)

\* variant: a failure of the user lookup is let through as a server error
get_current_user_Leak(tbl, now, cred, f) ==
    LET tok == StripBearer(cred)
        user_id_int == StrToInt(tok.user_id)
        user == get_user_by_id(tbl, user_id_int)
        v == verify_token(cred, now)
    IN IF v = "expired" THEN Plain(HTTP_401_UNAUTHORIZED, "Token has expired")
       ELSE IF v # "ok" THEN Plain(HTTP_401_UNAUTHORIZED, "Could not validate credentials")
       ELSE IF Falsy(tok.user_id)
            THEN Plain(HTTP_401_UNAUTHORIZED, "Invalid token: no user_id found")
       ELSE IF user_id_int = -1
            THEN Plain(HTTP_401_UNAUTHORIZED, "Invalid token: invalid user_id format")
       ELSE IF f = "db" THEN Plain(HTTP_500_INTERNAL_SERVER_ERROR, SOMETHING_WENT_WRONG)
       ELSE IF user = NoUser THEN Plain(HTTP_401_UNAUTHORIZED, "User not found")
       ELSE StandardResponse(HTTP_200_OK, "authenticated", user.id, NoToken, NoToken)

\* variant: an inactive user is not returned
get_current_user_ActiveOnly(tbl, now, cred, f) ==
    LET tok == StripBearer(cred)
        user_id_int == StrToInt(tok.user_id)
        user == get_user_by_id(tbl, user_id_int)
        v == verify_token(cred, now)
    IN IF v = "expired" THEN Plain(HTTP_401_UNAUTHORIZED, "Token has expired")
       ELSE IF v # "ok" THEN Plain(HTTP_401_UNAUTHORIZED, "Could not validate credentials")
       ELSE IF Falsy(tok.user_id)
            THEN Plain(HTTP_401_UNAUTHORIZED, "Invalid token: no user_id found")
       ELSE IF user_id_int = -1
            THEN Plain(HTTP_401_UNAUTHORIZED, "Invalid token: invalid user_id format")
       ELSE IF f = "db" THEN Plain(HTTP_401_UNAUTHORIZED, "Could not validate credentials")
       ELSE IF user = NoUser THEN Plain(HTTP_401_UNAUTHORIZED, "User not found")
       ELSE IF ~user.is_active THEN Plain(HTTP_401_UNAUTHORIZED, "User not found")
       ELSE StandardResponse(HTTP_200_OK, "authenticated", user.id, NoToken, NoToken)

\* returns the user (code 200, user = id) or raises HTTPException 401
get_current_user(tbl, now, cred, f) ==
    LET tok == StripBearer(cred)
        user_id_int == StrToInt(tok.user_id)
        user == get_user_by_id(tbl, user_id_int)
        v == verify_token(cred, now)
    IN IF v = "expired" THEN Plain(HTTP_401_UNAUTHORIZED, "Token has expired")
       ELSE IF v # "ok" THEN Plain(HTTP_401_UNAUTHORIZED, "Could not validate credentials")
       ELSE IF Falsy(tok.user_id)
            THEN Plain(HTTP_401_UNAUTHORIZED, "Invalid token: no user_id found")
       ELSE IF user_id_int = -1
            THEN Plain(HTTP_401_UNAUTHORIZED, "Invalid token: invalid user_id format")
       ELSE IF f = "db" THEN Plain(HTTP_401_UNAUTHORIZED, "Could not validate credentials")
       ELSE IF user = NoUser THEN Plain(HTTP_401_UNAUTHORIZED, "User not found")
       ELSE StandardResponse(HTTP_200_OK, "authenticated", user.id, NoToken, NoToken)

\* -------------------------------------------------------- check_permission
MANAGEMENT == <<"m", "a", "n", "a", "g", "e", "m", "e", "n", "t">>
ADMIN == <<"a", "d", "m", "i", "n">>
SALES == <<"s", "a", "l", "e", "s">>
STAFF == <<"s", "t", "a", "f", "f">>

\* permission names with an entry in PERMISSION_ROLE_MAP
ReadPermissions ==
    { "product_read", "product_category_read", "supplier_read" }
WritePermissions ==
    { "product_create", "product_update", "product_delete",
      "supplier_create", "supplier_update", "supplier_delete" }

\* PERMISSION_ROLE_MAP.get(permission_name); {} stands for None
PERMISSION_ROLE_MAP(permission_name) ==
    IF permission_name \in ReadPermissions THEN { MANAGEMENT, SALES, STAFF, ADMIN }
    ELSE IF permission_name \in WritePermissions THEN { MANAGEMENT, ADMIN }
    ELSE {}

\* the role relation of a user: no role row loaded
NoRole == [name |-> None, loaded |-> FALSE]

\* a row of the roles table, as loaded with the user
Role(name) == [name |-> name, loaded |-> TRUE]

\* getattr(getattr(current_user, "role", None), "name", None)
RoleName(current_user) ==
    IF current_user.role.loaded THEN current_user.role.name ELSE None

\* variant: the role name is compared as it is stored
permission_checker_CaseSensitive(current_user, permission_name, f) ==
    LET role_name == RoleName(current_user)
        allowed_roles == PERMISSION_ROLE_MAP(permission_name)
    IN IF f = "attr"
       THEN Plain(HTTP_403_FORBIDDEN, "Access denied: Could not verify permissions")
       ELSE IF current_user.role_id = 0
            THEN Plain(HTTP_403_FORBIDDEN, "Access denied: No role assigned")
       ELSE IF Falsy(role_name) THEN Plain(HTTP_403_FORBIDDEN, "Access denied: Invalid role")
       ELSE IF role_name \in { MANAGEMENT, ADMIN }
            THEN StandardResponse(HTTP_200_OK, "authorized", current_user.id, NoToken, NoToken)
       ELSE IF allowed_roles # {} /\ role_name \in allowed_roles
            THEN StandardResponse(HTTP_200_OK, "authorized", current_user.id, NoToken, NoToken)
       ELSE Plain(HTTP_403_FORBIDDEN, "Access denied: Permission required")

\* check_permission(permission_name) applied to the authenticated user:
\* returns the user (code 200, user = id) or raises HTTPException 403;
\* role_id 0 stands for None
permission_checker(current_user, permission_name, f) ==
    LET role_name == RoleName(current_user)
        role_name_lower == Lower(role_name)
        allowed_roles == PERMISSION_ROLE_MAP(permission_name)
    IN IF f = "attr"
       THEN Plain(HTTP_403_FORBIDDEN, "Access denied: Could not verify permissions")
       ELSE IF current_user.role_id = 0
            THEN Plain(HTTP_403_FORBIDDEN, "Access denied: No role assigned")
       ELSE IF Falsy(role_name) THEN Plain(HTTP_403_FORBIDDEN, "Access denied: Invalid role")
       ELSE IF role_name_lower \in { MANAGEMENT, ADMIN }
            THEN StandardResponse(HTTP_200_OK, "authorized", current_user.id, NoToken, NoToken)
       ELSE IF allowed_roles # {} /\ role_name_lower \in allowed_roles
            THEN StandardResponse(HTTP_200_OK, "authorized", current_user.id, NoToken, NoToken)
       ELSE Plain(HTTP_403_FORBIDDEN, "Access denied: Permission required")

\* ---------------------------------------------------------------- register
\* variant: the email column carries no unique constraint
UniqueEmailViolated_Never(tbl, email) == FALSE

\* Users.email = Column(String(255), unique=True): the insert is refused
\* when a row with that email is already committed
UniqueEmailViolated(tbl, email) == \E u \in tbl : u.email = email

\* create_user_method.get_user_by_email: find_user_by_email(email) -> User?
get_user_by_email(tbl, email) ==
    IF \E u \in tbl : u.email = email
    THEN CHOOSE u \in tbl : u.email = email
    ELSE NoUser

\* create_user_method.create_user: insert_user(fields) -> User, committed
create_user(tbl, id, data) ==
    tbl \cup { UserRow(id, data.email, data.password, data.is_active, data.is_verified) }

\* create_user_service up to the first await: normalise, look the email up.
\* "go" = no early return; the request continues with the insert
RegisterCheck(tbl, raw, f) ==
    LET email == NormalizeEmail(raw)
        existing_user == get_user_by_email(tbl, email)
    IN IF f = "db"
       THEN [go |-> FALSE, resp |-> Plain(HTTP_500_INTERNAL_SERVER_ERROR, SOMETHING_WENT_WRONG)]
       ELSE IF existing_user # NoUser
            THEN [go |-> FALSE, resp |-> Plain(HTTP_400_BAD_REQUEST, USER_ALREADY_EXISTS)]
       ELSE [go |-> TRUE, resp |-> Plain(0, "")]

\* create_user_service after the lookup: hash, insert, issue the token pair;
\* the tokens are created after create_user has returned the stored row
RegisterInsert(tbl, id, now, email, password, salt, f) ==
    LET err == Plain(HTTP_500_INTERNAL_SERVER_ERROR, SOMETHING_WENT_WRONG)
        user_create_data == [email |-> email, password |-> hash_password(password, salt),
                             is_active |-> TRUE, is_verified |-> FALSE]
    IN IF f = "hash" THEN [resp |-> err, users |-> tbl]
       ELSE IF f = "db" THEN [resp |-> err, users |-> tbl]
       ELSE IF UniqueEmailViolated(tbl, email) THEN [resp |-> err, users |-> tbl]
       ELSE IF f = "token" THEN [resp |-> err, users |-> create_user(tbl, id, user_create_data)]
       ELSE [resp |-> StandardResponse(HTTP_201_CREATED, USER_CREATED, id,
                                       create_access_token(IntToStr(id), email, now),
                                       create_refresh_token(IntToStr(id), email, now)),
             users |-> create_user(tbl, id, user_create_data)]

\* ---------------------------------------------------- courses and students
\* NULL in a nullable integer column, None in an Optional[int] argument
NULL == -1

\* Python truth of an Optional[int]: None and 0 are false
Truthy(x) == x # NULL /\ x # 0

\* `course.students or 0`
OrZero(x) == IF Truthy(x) THEN x ELSE 0

\* max(0, n)
Max0(n) == IF n < 0 THEN 0 ELSE n

\* Course row: id, name, students (the counter)
CourseRow(id, name, students) == [id |-> id, name |-> name, students |-> students]

NoCourse == [id |-> 0]

\* Student row: id, name, email, course_id
StudentRow(id, name, email, course_id) ==
    [id |-> id, name |-> name, email |-> email, course_id |-> course_id]

NoStudent == [id |-> 0]

\* update_dict.get(key) of a model_dump(exclude_unset=True): d.keys are the
\* fields the request set
DictGet(d, key) == IF key \in d.keys THEN d[key] ELSE NULL

\* select(Course).where(Course.id == course_id).limit(1) ... scalar_one_or_none()
get_course_by_id(tbl, course_id) ==
    IF \E c \in tbl : c.id = course_id
    THEN CHOOSE c \in tbl : c.id = course_id
    ELSE NoCourse

\* select(Course).where(Course.name == name).limit(1) ... scalar_one_or_none()
get_course_by_name(tbl, name) ==
    IF \E c \in tbl : c.name = name
    THEN CHOOSE c \in tbl : c.name = name
    ELSE NoCourse

\* Course(**course_data); db.add; commit.  The name column has an index and
\* no unique constraint, so the insert never fails on a name
create_course(tbl, id, course_data) ==
    tbl \cup { CourseRow(id, course_data.name, course_data.students) }

\* setattr(course, key, value) for each key of course_data; commit
update_course(tbl, course_id, course_data) ==
    { IF c.id = course_id
      THEN [c EXCEPT !.name = IF "name" \in course_data.keys THEN course_data.name ELSE @]
      ELSE c : c \in tbl }

\* update(Course).where(Course.id == course_id).values(students=n); commit
SetStudents(tbl, course_id, n) ==
    { IF c.id = course_id THEN [c EXCEPT !.students = n] ELSE c : c \in tbl }

\* select(Student).where(Student.id == student_id).limit(1)
get_student_by_id(tbl, student_id) ==
    IF \E s \in tbl : s.id = student_id
    THEN CHOOSE s \in tbl : s.id = student_id
    ELSE NoStudent

\* select(Student).where(Student.email == email).limit(1)
get_student_by_email(tbl, email) ==
    IF \E s \in tbl : s.email = email
    THEN CHOOSE s \in tbl : s.email = email
    ELSE NoStudent

\* Student(**student_data); db.add; commit; refresh
create_student(tbl, id, student_data) ==
    tbl \cup { StudentRow(id, student_data.name, student_data.email, student_data.course_id) }

\* setattr(student, key, value) for each key of student_data; commit; refresh
update_student(tbl, student_id, student_data) ==
    { IF s.id = student_id
      THEN [s EXCEPT !.name = IF "name" \in student_data.keys THEN student_data.name ELSE @,
                     !.course_id = IF "course_id" \in student_data.keys
                                   THEN student_data.course_id ELSE @]
      ELSE s : s \in tbl }

\* db.delete(student); commit
delete_student(tbl, student_id) == { s \in tbl : s.id # student_id }

\* create_student_service, steps 2 and 3: the email lookup and the course
\* lookup.  "go" = no early return
CreateStudentCheck(courses, students, student_data) ==
    IF get_student_by_email(students, student_data.email) # NoStudent
    THEN [go |-> FALSE,
          resp |-> Plain(HTTP_400_BAD_REQUEST, "Student with this email already exists")]
    ELSE IF /\ Truthy(student_data.course_id)
            /\ get_course_by_id(courses, student_data.course_id) = NoCourse
         THEN [go |-> FALSE, resp |-> Plain(HTTP_404_NOT_FOUND, "Course not found")]
    ELSE [go |-> TRUE, resp |-> Plain(0, "")]

\* create_student_service, step 5: the insert.  students.email is unique, so
\* a row with the email already there raises IntegrityError, which the
\* catch-all answers with 500
CreateStudentInsert(students, id, student_data) ==
    IF \E s \in students : s.email = student_data.email
    THEN [go |-> FALSE,
          resp |-> Plain(HTTP_500_INTERNAL_SERVER_ERROR, SOMETHING_WENT_WRONG),
          students |-> students]
    ELSE [go |-> TRUE, resp |-> Plain(0, ""),
          students |-> create_student(students, id, student_data)]

\* create_student_service, step 7, the read: current_count = course.students
\* or 0, when the new student has a course and the course is found
CreateStudentRead(courses, course_id) ==
    IF Truthy(course_id) /\ get_course_by_id(courses, course_id) # NoCourse
    THEN [go |-> TRUE, current_count |-> OrZero(get_course_by_id(courses, course_id).students)]
    ELSE [go |-> FALSE, current_count |-> 0]

\* create_student_service, step 7, the write: students = current_count + 1
CreateStudentWrite(courses, course_id, current_count) ==
    SetStudents(courses, course_id, current_count + 1)

\* the 201 of create_student_service
StudentCreated == Plain(HTTP_201_CREATED, "Student created successfully")

\* create_student_service run from start to end
create_student_service(courses, students, id, student_data) ==
    LET c == CreateStudentCheck(courses, students, student_data)
        i == CreateStudentInsert(students, id, student_data)
        r == CreateStudentRead(courses, student_data.course_id)
    IN IF ~c.go THEN [resp |-> c.resp, courses |-> courses, students |-> students]
       ELSE IF ~i.go THEN [resp |-> i.resp, courses |-> courses, students |-> students]
       ELSE IF ~r.go THEN [resp |-> StudentCreated, courses |-> courses, students |-> i.students]
       ELSE [resp |-> StudentCreated,
             courses |-> CreateStudentWrite(courses, student_data.course_id, r.current_count),
             students |-> i.students]

\* update_student_service: old_course_id is the stored course, new_course_id
\* is update_dict.get("course_id"), None when the request did not set it
update_student_service(courses, students, student_id, update_dict) ==
    LET current_student == get_student_by_id(students, student_id)
        old_course_id == current_student.course_id
        new_course_id == DictGet(update_dict, "course_id")
        old_course == get_course_by_id(courses, old_course_id)
        decremented ==
            IF old_course_id # new_course_id /\ Truthy(old_course_id) /\ old_course # NoCourse
            THEN SetStudents(courses, old_course_id, Max0(OrZero(old_course.students) - 1))
            ELSE courses
        new_course == get_course_by_id(decremented, new_course_id)
        incremented ==
            IF old_course_id # new_course_id /\ Truthy(new_course_id) /\ new_course # NoCourse
            THEN SetStudents(decremented, new_course_id, OrZero(new_course.students) + 1)
            ELSE decremented
    IN IF current_student = NoStudent
       THEN [resp |-> Plain(HTTP_404_NOT_FOUND, "Student not found"),
             courses |-> courses, students |-> students]
       ELSE IF Truthy(new_course_id) /\ get_course_by_id(courses, new_course_id) = NoCourse
            THEN [resp |-> Plain(HTTP_404_NOT_FOUND, "Course not found"),
                  courses |-> courses, students |-> students]
       ELSE [resp |-> Plain(HTTP_200_OK, "Student updated successfully"),
             courses |-> incremented,
             students |-> update_student(students, student_id, update_dict)]

\* delete_student_service: course_id_to_update is stored and not used again
delete_student_service(students, student_id) ==
    IF get_student_by_id(students, student_id) = NoStudent
    THEN [resp |-> Plain(HTTP_404_NOT_FOUND, "Student not found"), students |-> students]
    ELSE [resp |-> Plain(HTTP_200_OK, "Student deleted successfully"),
          students |-> delete_student(students, student_id)]

\* create_course_service, step 2: the name lookup
CreateCourseCheck(courses, course_data) ==
    IF get_course_by_name(courses, course_data.name) # NoCourse
    THEN [go |-> FALSE,
          resp |-> Plain(HTTP_400_BAD_REQUEST, "Course with this name already exists")]
    ELSE [go |-> TRUE, resp |-> Plain(0, "")]

\* create_course_service, step 4 on: the insert and the 201
CreateCourseInsert(courses, id, course_data) ==
    [resp |-> Plain(HTTP_201_CREATED, "Course created successfully"),
     courses |-> create_course(courses, id, course_data)]

\* update_course_service: update_course, 404 when it found no row
update_course_service(courses, course_id, update_dict) ==
    IF get_course_by_id(courses, course_id) = NoCourse
    THEN [resp |-> Plain(HTTP_404_NOT_FOUND, "Course not found"), courses |-> courses]
    ELSE [resp |-> Plain(HTTP_200_OK, "Course updated successfully"),
          courses |-> update_course(courses, course_id, update_dict)]

\* ------------------------------------------------------------------- state
VARIABLES
    users,      \* rows of the users table
    nextId,     \* next primary key of the users table
    now,        \* clock, in ticks
    pc,         \* per concurrent request: "idle" or the step it is to take next
    loc,        \* per concurrent request: its local variables
    req,        \* the request served by the last step
    resp,       \* its response
    sent,       \* the email it handed to send_email, or NoMail
    held,       \* what one client has kept of the responses and mails it got
    courses,    \* rows of the courses table
    students,   \* rows of the students table
    nextCourseId,   \* next primary key of the courses table
    nextStudentId   \* next primary key of the students table

vars == <<users, nextId, now, pc, loc, req, resp, sent, held,
          courses, students, nextCourseId, nextStudentId>>

\* the tables of the course and student modules
lmsVars == <<courses, students, nextCourseId, nextStudentId>>

\* what the course and student modules leave alone
authVars == <<users, nextId, now, sent, held>>

Procs == 1..MaxProcs

NoLoc == [email |-> None, password |-> ""]
NoReq == [op |-> "none"]
NoResp == Plain(0, "")

\* the client has kept nothing yet.  by/uid/at/access/refresh: the token pair
\* of a register or login response and the tick it came at; password: the
\* password that request was made with; renewed: the access
\* token the first refresh with that refresh token returned; changed: the user's
\* password was reset since; reset: the token of a reset mail; resetUses: how
\* many resets with it have succeeded (counted up to MaxResetUses)
NoHeld ==
    [by |-> "none", uid |-> 0, at |-> 0, access |-> NoToken, refresh |-> NoToken,
     password |-> "", renewed |-> NoToken, renewedAt |-> 0, changed |-> FALSE,
     reset |-> NoToken, resetAt |-> 0, resetUses |-> 0]

\* a directory left by an earlier run: one account, since deactivated
FixtureUsers == { UserRow(1, <<"b">>, hash_password("pw2", "s2"), FALSE, FALSE) }

\* ------------------------------------------------------------------ inputs
ClaimPairs ==
    ({ IntToStr(i) : i \in 1..MaxUsers } \X Emails)
    \cup { <<None, <<"a">>>>, <<IntToStr(1), None>>, <<<<"x">>, <<"a">>>> }

IssuedAt(uid, email, type, t0) ==
    IF type = "refresh" THEN create_refresh_token(uid, email, t0)
    ELSE IF type = "password_reset" THEN create_password_reset_token(uid, email, t0)
    ELSE create_access_token(uid, email, t0)

Forged == [IssuedAt(IntToStr(1), <<"a">>, "refresh", 0) EXCEPT !.signed = FALSE]

\* bearer strings offered to the verifiers: a token signed with the server's
\* secret at a tick of T0, or a forged one; `issued` remembers the tick of
\* issue, which the code never sees (the token carries whole seconds only)
Creds(T0) ==
    { [bearer |-> FALSE, tok |-> IssuedAt(c[1], c[2], ty, t0), issued |-> t0]
        : c \in ClaimPairs, ty \in TokenTypes, t0 \in T0 }
    \cup { [bearer |-> FALSE, tok |-> Forged, issued |-> 0] }
    \cup { [bearer |-> TRUE, tok |-> IssuedAt(IntToStr(1), <<"a">>, ty, 0), issued |-> 0]
            : ty \in TokenTypes }

\* role names as the roles table may hold them
RoleNames ==
    { ADMIN, <<"A", "d", "m", "i", "n">>, MANAGEMENT,
      <<"M", "A", "N", "A", "G", "E", "M", "E", "N", "T">>,
      SALES, <<"S", "a", "l", "e", "s">>, STAFF,
      <<"s", "t", "u", "d", "e", "n", "t">> }

\* the users get_current_user can hand to the permission check: without a
\* role, with a role row that has no name, and with a named role
CurrentUsers ==
    { [id |-> i, role_id |-> 0, role |-> NoRole] : i \in 1..MaxUsers }
    \cup { [id |-> i, role_id |-> 1, role |-> r]
            : i \in 1..MaxUsers, r \in { NoRole, Role(None), Role(EmptyStr) } }
    \cup { [id |-> i, role_id |-> 1, role |-> Role(n)] : i \in 1..MaxUsers, n \in RoleNames }

\* permission names of the endpoints: mapped ones and one that is not
PermissionNames ==
    { "product_read", "supplier_read", "product_create", "supplier_delete", "course_read" }

\* clock readings of the workflow runs: the start, and one second past each lifetime
CoarseTimes ==
    { 0 } \cup { (L + 1) * Res : L \in { AccessLifetime, ResetLifetime, RefreshLifetime } }

\* clock readings around the expiry of a token issued at ticks 0..MaxIssueTick
FineTimes ==
    (0..MaxIssueTick)
    \cup UNION { { L * Res - 1, L * Res, L * Res + 1, (L + 1) * Res - 1, (L + 1) * Res }
                 : L \in { AccessLifetime, ResetLifetime, RefreshLifetime } }

\* the courses every run starts with: two courses nobody is enrolled in
FixtureCourses == { CourseRow(1, "c1", 0), CourseRow(2, "c2", 0) }

StudentEmails == { "e1", "e2" }

CourseNames == { "c1", "c2", "c3" }

\* course_id of a student request: None, a course of the fixture, no course
CourseIdInputs == { NULL } \cup (1..(Cardinality(FixtureCourses) + 1))

\* StudentCreateSchema
StudentCreates == [name : { "n1" }, email : StudentEmails, course_id : CourseIdInputs]

\* StudentUpdateSchema after model_dump(exclude_unset=True)
StudentUpdates ==
    { [keys |-> {}, name |-> "n1", course_id |-> NULL],
      [keys |-> { "name" }, name |-> "n2", course_id |-> NULL] }
    \cup { [keys |-> { "course_id" }, name |-> "n1", course_id |-> c] : c \in CourseIdInputs }
    \cup { [keys |-> { "name", "course_id" }, name |-> "n2", course_id |-> c] :
             c \in CourseIdInputs }

\* CourseCreateSchema
CourseCreates == [name : CourseNames, students : { NULL }]

\* CourseUpdateSchema after model_dump(exclude_unset=True)
CourseUpdates ==
    { [keys |-> {}, name |-> "c1"] }
    \cup { [keys |-> { "name" }, name |-> n] : n \in CourseNames }

\* ----------------------------------------------------------------- actions
\* a request is taken up only when the previous response has gone out
Idle == req = NoReq

\* view.py `return response.make`: the response leaves, the worker is free
Respond ==
    /\ req # NoReq
    /\ req' = NoReq
    /\ resp' = NoResp
    /\ sent' = NoMail
    /\ UNCHANGED <<users, nextId, now, pc, loc, held, lmsVars>>

Advance(T) ==
    /\ Idle
    /\ \E t \in T : t > now /\ now' = t
    /\ UNCHANGED <<users, nextId, pc, loc, req, resp, sent, held, lmsVars>>

Tick == Advance(CoarseTimes)

TickFine == Advance(FineTimes)

\* variant: a successful login stores the refresh token it issued in the row
Login_StoreRefresh ==
    \E raw \in RawEmails, password \in Passwords, f \in { "none", "db", "hash", "token" } :
        LET r == login_user_service(users, now, raw, password, f)
        IN /\ Idle
           /\ req' = [op |-> "login", email |-> raw, password |-> password, fault |-> f]
           /\ resp' = r
           /\ users' = IF r.code = HTTP_200_OK
                       THEN { IF u.id = r.user
                              THEN [u EXCEPT !.refresh_token = <<"t">>,
                                             !.refresh_token_expires_at = <<"e">>]
                              ELSE u : u \in users }
                       ELSE users
           /\ sent' = NoMail
           /\ UNCHANGED <<nextId, now, pc, loc, held, lmsVars>>


Login ==
    \E raw \in RawEmails, password \in Passwords, f \in { "none", "db", "hash", "token" } :
        /\ Idle
        /\ req' = [op |-> "login", email |-> raw, password |-> password, fault |-> f]
        /\ resp' = login_user_service(users, now, raw, password, f)
        /\ sent' = NoMail
        /\ UNCHANGED <<users, nextId, now, pc, loc, held, lmsVars>>

RefreshWith(C) ==
    \E cred \in C, f \in { "none", "db", "token" } :
        /\ Idle
        /\ req' = [op |-> "refresh", cred |-> cred, fault |-> f]
        /\ resp' = refresh_token_service(users, now, cred, f)
        /\ sent' = NoMail
        /\ UNCHANGED <<users, nextId, now, pc, loc, held, lmsVars>>

ForgetPassword ==
    \E raw \in RawEmails, f \in { "none", "db", "token", "render", "send" } :
        LET r == forget_password_service(users, now, raw, f)
        IN /\ Idle
           /\ req' = [op |-> "forget", email |-> raw, fault |-> f]
           /\ resp' = r.resp
           /\ sent' = r.mail
           /\ UNCHANGED <<users, nextId, now, pc, loc, held, lmsVars>>

ResetPasswordWith(C) ==
    \E cred \in C, new_password \in Passwords, salt \in Salts,
       f \in { "none", "db", "hash", "refetch" } :
        LET r == reset_password_service(users, now, cred, new_password, salt, f)
        IN /\ Idle
           /\ req' = [op |-> "reset", cred |-> cred, new_password |-> new_password, fault |-> f]
           /\ resp' = r.resp
           /\ users' = r.users
           /\ sent' = NoMail
           /\ UNCHANGED <<nextId, now, pc, loc, held, lmsVars>>

AuthenticateWith(C) ==
    \E cred \in C, f \in { "none", "db" } :
        /\ Idle
        /\ req' = [op |-> "auth", cred |-> cred, fault |-> f]
        /\ resp' = get_current_user(users, now, cred, f)
        /\ sent' = NoMail
        /\ UNCHANGED <<users, nextId, now, pc, loc, held, lmsVars>>

Refresh == RefreshWith(Creds({0}))
ResetPassword == ResetPasswordWith(Creds({0}))
Authenticate == AuthenticateWith(Creds({0}))

\* one register request run from start to end with no other request between
Register ==
    \E raw \in RawEmails, password \in Passwords, salt \in Salts,
       f \in { "none", "db", "hash", "token" } :
        LET c == RegisterCheck(users, raw, f)
            r == RegisterInsert(users, nextId, now, NormalizeEmail(raw), password, salt, f)
        IN /\ Idle
           /\ nextId <= MaxUsers
           /\ req' = [op |-> "register", email |-> raw, password |-> password, fault |-> f]
           /\ resp' = IF c.go THEN r.resp ELSE c.resp
           /\ users' = IF c.go THEN r.users ELSE users
           /\ nextId' = IF c.go /\ r.users # users THEN nextId + 1 ELSE nextId
           /\ sent' = NoMail
           /\ UNCHANGED <<now, pc, loc, held, lmsVars>>

\* variant: the lookup and the insert of a register request are one step
RegCheck_Atomic(p) ==
    \E raw \in RawEmails, password \in Passwords, salt \in Salts, f \in { "none", "db" } :
        LET c == RegisterCheck(users, raw, f)
            r == RegisterInsert(users, nextId, now, NormalizeEmail(raw), password, salt, f)
        IN /\ Idle
           /\ pc[p] = "idle"
           /\ nextId <= MaxUsers
           /\ req' = [op |-> "reg_check", proc |-> p, email |-> raw, password |-> password, fault |-> f]
           /\ resp' = IF c.go THEN r.resp ELSE c.resp
           /\ users' = IF c.go THEN r.users ELSE users
           /\ nextId' = IF c.go /\ r.users # users THEN nextId + 1 ELSE nextId
           /\ sent' = NoMail
           /\ UNCHANGED <<now, pc, loc, held, lmsVars>>

\* a concurrent register request, first half: runs to `await create_user`
RegCheck(p) ==
    \E raw \in RawEmails, password \in Passwords, f \in { "none", "db" } :
        LET c == RegisterCheck(users, raw, f)
        IN /\ Idle
           /\ pc[p] = "idle"
           /\ req' = [op |-> "reg_check", proc |-> p, email |-> raw, password |-> password, fault |-> f]
           /\ resp' = c.resp
           /\ pc' = [pc EXCEPT ![p] = IF c.go THEN "insert" ELSE "idle"]
           /\ loc' = [loc EXCEPT ![p] = IF c.go
                                         THEN [email |-> NormalizeEmail(raw), password |-> password]
                                         ELSE NoLoc]
           /\ sent' = NoMail
           /\ UNCHANGED <<users, nextId, now, held, lmsVars>>

\* a concurrent register request, second half: insert, commit and answer
RegInsert(p) ==
    \E salt \in Salts, f \in { "none", "db", "hash", "token" } :
        LET r == RegisterInsert(users, nextId, now, loc[p].email, loc[p].password, salt, f)
        IN /\ Idle
           /\ pc[p] = "insert"
           /\ nextId <= MaxUsers
           /\ req' = [op |-> "reg_insert", proc |-> p, email |-> loc[p].email,
                      password |-> loc[p].password, fault |-> f]
           /\ resp' = r.resp
           /\ users' = r.users
           /\ nextId' = IF r.users # users THEN nextId + 1 ELSE nextId
           /\ pc' = [pc EXCEPT ![p] = "idle"]
           /\ loc' = [loc EXCEPT ![p] = NoLoc]
           /\ sent' = NoMail
           /\ UNCHANGED <<now, held, lmsVars>>

\* a protected endpoint: Depends(check_permission(permission_name))
CheckPermission ==
    \E current_user \in CurrentUsers, permission_name \in PermissionNames, f \in { "none", "attr" } :
        /\ Idle
        /\ req' = [op |-> "permission", user |-> current_user, permission |-> permission_name,
                   fault |-> f]
        /\ resp' = permission_checker(current_user, permission_name, f)
        /\ sent' = NoMail
        /\ UNCHANGED <<users, nextId, now, pc, loc, held, lmsVars>>

\* ------------------------------------------------- one client's session
\* the client keeps the token pair of a register / login response
KeepGrant(h, op, r, t, password) ==
    [h EXCEPT !.by = op, !.uid = r.user, !.at = t, !.access = r.access,
              !.refresh = r.refresh, !.password = password,
              !.renewed = NoToken, !.renewedAt = 0, !.changed = FALSE]

\* the client keeps the access token of the first refresh response
KeepRenewed(h, r, t) ==
    IF h.renewed = NoToken THEN [h EXCEPT !.renewed = r.access, !.renewedAt = t] ELSE h

\* the client keeps the token of the reset link mailed to it
KeepMail(h, m, t) == [h EXCEPT !.reset = m.token, !.resetAt = t, !.resetUses = 0]

\* the salt bcrypt.gensalt() draws in the session runs
SessionSalts == { "s1" }

\* the session runs read the clock at the start and once the access token
\* of the start is a second past its lifetime
SessionTick == Advance({ (AccessLifetime + 1) * Res })

\* the bearer string of a kept token
HeldCred(tok, t0) == [bearer |-> FALSE, tok |-> tok, issued |-> t0]

SessionRegister ==
    \E raw \in RawEmails, password \in Passwords, salt \in SessionSalts, keep \in BOOLEAN :
        LET c == RegisterCheck(users, raw, "none")
            r == RegisterInsert(users, nextId, now, NormalizeEmail(raw), password, salt, "none")
            out == IF c.go THEN r.resp ELSE c.resp
        IN /\ Idle
           /\ nextId <= MaxUsers
           /\ req' = [op |-> "register", email |-> raw, password |-> password, fault |-> "none"]
           /\ resp' = out
           /\ users' = IF c.go THEN r.users ELSE users
           /\ nextId' = IF c.go /\ r.users # users THEN nextId + 1 ELSE nextId
           /\ sent' = NoMail
           /\ held' = IF keep /\ out.code = HTTP_201_CREATED
                      THEN KeepGrant(held, "register", out, now, password) ELSE held
           /\ UNCHANGED <<now, pc, loc, lmsVars>>

SessionLogin ==
    \E raw \in RawEmails, password \in Passwords, keep \in BOOLEAN :
        LET out == login_user_service(users, now, raw, password, "none")
        IN /\ Idle
           /\ req' = [op |-> "login", email |-> raw, password |-> password, fault |-> "none"]
           /\ resp' = out
           /\ sent' = NoMail
           /\ held' = IF keep /\ out.code = HTTP_200_OK
                      THEN KeepGrant(held, "login", out, now, password) ELSE held
           /\ UNCHANGED <<users, nextId, now, pc, loc, lmsVars>>

\* the client presents the refresh token it has kept
SessionRefresh ==
    LET cred == HeldCred(held.refresh, held.at)
        out == refresh_token_service(users, now, cred, "none")
    IN /\ Idle
       /\ held.refresh # NoToken
       /\ req' = [op |-> "refresh", cred |-> cred, fault |-> "none"]
       /\ resp' = out
       /\ sent' = NoMail
       /\ held' = IF out.code = HTTP_200_OK THEN KeepRenewed(held, out, now) ELSE held
       /\ UNCHANGED <<users, nextId, now, pc, loc, lmsVars>>

SessionForgetPassword ==
    \E raw \in RawEmails, keep \in BOOLEAN :
        LET r == forget_password_service(users, now, raw, "none")
        IN /\ Idle
           /\ req' = [op |-> "forget", email |-> raw, fault |-> "none"]
           /\ resp' = r.resp
           /\ sent' = r.mail
           /\ held' = IF keep /\ r.mail # NoMail THEN KeepMail(held, r.mail, now) ELSE held
           /\ UNCHANGED <<users, nextId, now, pc, loc, lmsVars>>

\* the client follows the reset link it has kept
SessionResetPassword ==
    \E new_password \in Passwords, salt \in SessionSalts :
        LET cred == HeldCred(held.reset, held.resetAt)
            r == reset_password_service(users, now, cred, new_password, salt, "none")
        IN /\ Idle
           /\ held.reset # NoToken
           /\ req' = [op |-> "reset", cred |-> cred, new_password |-> new_password, fault |-> "none"]
           /\ resp' = r.resp
           /\ users' = r.users
           /\ sent' = NoMail
           /\ held' = IF r.resp.code = HTTP_200_OK
                      THEN [held EXCEPT !.resetUses = IF @ < MaxResetUses THEN @ + 1 ELSE @,
                                        !.changed = @ \/ held.reset.user_id = IntToStr(held.uid)]
                      ELSE held
           /\ UNCHANGED <<nextId, now, pc, loc, lmsVars>>

\* the client calls a protected endpoint with an access token it has kept
SessionAuthenticate ==
    \E renewed \in BOOLEAN :
        LET cred == IF renewed THEN HeldCred(held.renewed, held.renewedAt)
                    ELSE HeldCred(held.access, held.at)
        IN /\ Idle
           /\ cred.tok # NoToken
           /\ req' = [op |-> "auth", cred |-> cred, fault |-> "none"]
           /\ resp' = get_current_user(users, now, cred, "none")
           /\ sent' = NoMail
           /\ UNCHANGED <<users, nextId, now, pc, loc, held, lmsVars>>

\* ------------------------------------------- course and student requests
\* POST /students, run from start to end with no other request between
CreateStudent ==
    \E d \in StudentCreates :
        LET r == create_student_service(courses, students, nextStudentId, d)
        IN /\ Idle
           /\ nextStudentId <= MaxStudents
           /\ req' = [op |-> "create_student", data |-> d]
           /\ resp' = r.resp
           /\ courses' = r.courses
           /\ students' = r.students
           /\ nextStudentId' = IF r.students # students THEN nextStudentId + 1 ELSE nextStudentId
           /\ UNCHANGED <<authVars, pc, loc, nextCourseId>>

\* PUT /students/{student_id}
UpdateStudent ==
    \E id \in 1..MaxStudents, d \in StudentUpdates :
        LET r == update_student_service(courses, students, id, d)
        IN /\ Idle
           /\ req' = [op |-> "update_student", student_id |-> id, data |-> d]
           /\ resp' = r.resp
           /\ courses' = r.courses
           /\ students' = r.students
           /\ UNCHANGED <<authVars, pc, loc, nextCourseId, nextStudentId>>

\* DELETE /students/{student_id}
DeleteStudent ==
    \E id \in 1..MaxStudents :
        LET r == delete_student_service(students, id)
        IN /\ Idle
           /\ req' = [op |-> "delete_student", student_id |-> id]
           /\ resp' = r.resp
           /\ students' = r.students
           /\ UNCHANGED <<authVars, pc, loc, courses, nextCourseId, nextStudentId>>

\* a concurrent create_student request, up to `await create_student`
EnrolCheck(p) ==
    \E d \in StudentCreates :
        LET c == CreateStudentCheck(courses, students, d)
        IN /\ Idle
           /\ pc[p] = "idle"
           /\ req' = [op |-> "enrol_check", proc |-> p, data |-> d]
           /\ resp' = c.resp
           /\ pc' = [pc EXCEPT ![p] = IF c.go THEN "student_insert" ELSE "idle"]
           /\ loc' = [loc EXCEPT ![p] = IF c.go THEN [data |-> d, current_count |-> 0] ELSE NoLoc]
           /\ UNCHANGED <<authVars, lmsVars>>

\* the insert and its commit; the request ends here when it has no course
EnrolInsert(p) ==
    LET d == loc[p].data
        i == CreateStudentInsert(students, nextStudentId, d)
        more == i.go /\ Truthy(d.course_id)
    IN /\ Idle
       /\ pc[p] = "student_insert"
       /\ nextStudentId <= MaxStudents
       /\ req' = [op |-> "enrol_insert", proc |-> p, data |-> d]
       /\ resp' = IF ~i.go THEN i.resp ELSE IF more THEN NoResp ELSE StudentCreated
       /\ students' = i.students
       /\ nextStudentId' = IF i.go THEN nextStudentId + 1 ELSE nextStudentId
       /\ pc' = [pc EXCEPT ![p] = IF more THEN "student_read" ELSE "idle"]
       /\ loc' = [loc EXCEPT ![p] = IF more THEN @ ELSE NoLoc]
       /\ UNCHANGED <<authVars, courses, nextCourseId>>

\* `await get_course_by_id` of step 7: the count is read
EnrolRead(p) ==
    LET d == loc[p].data
        r == CreateStudentRead(courses, d.course_id)
    IN /\ Idle
       /\ pc[p] = "student_read"
       /\ req' = [op |-> "enrol_read", proc |-> p, data |-> d]
       /\ resp' = IF r.go THEN NoResp ELSE StudentCreated
       /\ pc' = [pc EXCEPT ![p] = IF r.go THEN "student_write" ELSE "idle"]
       /\ loc' = [loc EXCEPT ![p] = IF r.go THEN [@ EXCEPT !.current_count = r.current_count]
                                     ELSE NoLoc]
       /\ UNCHANGED <<authVars, lmsVars>>

\* `await db.execute(stmt)`, commit and the 201: the count is written
EnrolWrite(p) ==
    LET d == loc[p].data
    IN /\ Idle
       /\ pc[p] = "student_write"
       /\ req' = [op |-> "enrol_write", proc |-> p, data |-> d]
       /\ resp' = StudentCreated
       /\ courses' = CreateStudentWrite(courses, d.course_id, loc[p].current_count)
       /\ pc' = [pc EXCEPT ![p] = "idle"]
       /\ loc' = [loc EXCEPT ![p] = NoLoc]
       /\ UNCHANGED <<authVars, students, nextCourseId, nextStudentId>>

\* a concurrent create_course request, up to `await create_course`
CourseCheck(p) ==
    \E d \in CourseCreates :
        LET c == CreateCourseCheck(courses, d)
        IN /\ Idle
           /\ pc[p] = "idle"
           /\ req' = [op |-> "course_check", proc |-> p, data |-> d]
           /\ resp' = c.resp
           /\ pc' = [pc EXCEPT ![p] = IF c.go THEN "course_insert" ELSE "idle"]
           /\ loc' = [loc EXCEPT ![p] = IF c.go THEN [data |-> d] ELSE NoLoc]
           /\ UNCHANGED <<authVars, lmsVars>>

\* the insert, its commit and the 201
CourseInsert(p) ==
    LET d == loc[p].data
        r == CreateCourseInsert(courses, nextCourseId, d)
    IN /\ Idle
       /\ pc[p] = "course_insert"
       /\ nextCourseId <= MaxCourses
       /\ req' = [op |-> "course_insert", proc |-> p, data |-> d]
       /\ resp' = r.resp
       /\ courses' = r.courses
       /\ nextCourseId' = nextCourseId + 1
       /\ pc' = [pc EXCEPT ![p] = "idle"]
       /\ loc' = [loc EXCEPT ![p] = NoLoc]
       /\ UNCHANGED <<authVars, students, nextStudentId>>

\* PUT /courses/{course_id}
UpdateCourse ==
    \E id \in 1..MaxCourses, d \in CourseUpdates :
        LET r == update_course_service(courses, id, d)
        IN /\ Idle
           /\ req' = [op |-> "update_course", course_id |-> id, data |-> d]
           /\ resp' = r.resp
           /\ courses' = r.courses
           /\ UNCHANGED <<authVars, pc, loc, students, nextCourseId, nextStudentId>>

\* ---------------------------------------------------------- specifications
Init ==
    /\ users \in { {}, FixtureUsers }
    /\ nextId = Cardinality(users) + 1
    /\ now = 0
    /\ pc = [p \in Procs |-> "idle"]
    /\ loc = [p \in Procs |-> NoLoc]
    /\ req = NoReq
    /\ resp = NoResp
    /\ sent = NoMail
    /\ held = NoHeld
    /\ courses = FixtureCourses
    /\ students = {}
    /\ nextCourseId = Cardinality(FixtureCourses) + 1
    /\ nextStudentId = 1

\* the workflows, each request served without interleaving
Next ==
    \/ Tick
    \/ Register
    \/ Login
    \/ Refresh
    \/ ForgetPassword
    \/ ResetPassword
    \/ Authenticate
    \/ Respond

Spec == Init /\ [][Next]_vars

\* concurrent register requests, interleaved at their await points
NextRace ==
    \/ \E p \in Procs : RegCheck(p)
    \/ \E p \in Procs : RegInsert(p)
    \/ Respond

SpecRace == Init /\ [][NextRace]_vars

\* token verification around the expiry instants
NextExpiry ==
    \/ TickFine
    \/ RefreshWith(Creds(0..MaxIssueTick))
    \/ ResetPasswordWith(Creds(0..MaxIssueTick))
    \/ AuthenticateWith(Creds(0..MaxIssueTick))
    \/ Respond

SpecExpiry == Init /\ [][NextExpiry]_vars

\* one client using the tokens the server gave it
NextSession ==
    \/ SessionTick
    \/ SessionRegister
    \/ SessionLogin
    \/ SessionRefresh
    \/ SessionForgetPassword
    \/ SessionResetPassword
    \/ SessionAuthenticate
    \/ Respond

SpecSession == Init /\ [][NextSession]_vars

\* the permission gate on its own
NextPermission ==
    \/ CheckPermission
    \/ Respond

SpecPermission == Init /\ [][NextPermission]_vars

\* student requests one after the other
NextStudents ==
    \/ CreateStudent
    \/ UpdateStudent
    \/ DeleteStudent
    \/ Respond

SpecStudents == Init /\ [][NextStudents]_vars

\* concurrent create_student requests, interleaved at their await points
NextEnrol ==
    \/ \E p \in Procs : EnrolCheck(p)
    \/ \E p \in Procs : EnrolInsert(p)
    \/ \E p \in Procs : EnrolRead(p)
    \/ \E p \in Procs : EnrolWrite(p)
    \/ Respond

SpecEnrol == Init /\ [][NextEnrol]_vars

\* course requests: concurrent create_course requests and update_course
NextCourses ==
    \/ \E p \in Procs : CourseCheck(p)
    \/ \E p \in Procs : CourseInsert(p)
    \/ UpdateCourse
    \/ Respond

SpecCourses == Init /\ [][NextCourses]_vars

\* ================================================================== claims
\* the row stored under the email a request normalises to, or NoUser
RowOf(raw) ==
    IF \E u \in users : u.email = NormalizeEmail(raw)
    THEN CHOOSE u \in users : u.email = NormalizeEmail(raw)
    ELSE NoUser

Registered(raw) == RowOf(raw) # NoUser

\* the plaintext a stored hash was computed from
PlainOf(hashed) == hashed.digest[2]

Outcome(r) == <<r.code, r.message>>

\* what a login with an unregistered email is answered in the current directory
UnknownLoginOutcomes ==
    { Outcome(login_user_service(users, now, raw, pw, "none"))
        : raw \in { r \in RawEmails : ~Registered(r) }, pw \in Passwords }

\* C1 (as amended): a login with the email of an ACTIVE account and a wrong
\* password is answered with the same (status code, message) pair as a login
\* with an email that is not registered.
C1_LoginAntiEnumerationActive ==
    (/\ req.op = "login"
     /\ req.fault = "none"
     /\ Registered(req.email)
     /\ RowOf(req.email).is_active
     /\ PlainOf(RowOf(req.email).password) # req.password)
    => /\ Outcome(resp) = <<HTTP_401_UNAUTHORIZED, INVALID_EMAIL_OR_PASSWORD>>
       /\ \A o \in UnknownLoginOutcomes : o = Outcome(resp)

\* C1 witness: a wrong-password login of an active account has been answered
\* while some other email is unregistered
C1_Witness ==
    /\ req.op = "login"
    /\ req.fault = "none"
    /\ Registered(req.email)
    /\ RowOf(req.email).is_active
    /\ PlainOf(RowOf(req.email).password) # req.password
    /\ UnknownLoginOutcomes # {}
    /\ resp.code = HTTP_401_UNAUTHORIZED

\* C1 as stated: in every directory, a wrong-password login of any registered
\* email is answered like a login with an unregistered email.
C1_LoginAntiEnumerationOriginal ==
    (/\ req.op = "login"
     /\ req.fault = "none"
     /\ Registered(req.email)
     /\ PlainOf(RowOf(req.email).password) # req.password)
    => \A o \in UnknownLoginOutcomes : o = Outcome(resp)

\* ---- C2
\* C2 as stated: whatever the email sender does, ForgetPassword answers
\* with the same success response (200, the generic message, empty data),
\* be the email unregistered, registered but inactive, or registered and active.
C2_ForgetAntiEnumeration ==
    (req.op = "forget" /\ req.fault \in { "none", "send" })
    => resp = Plain(HTTP_200_OK, FORGET_PASSWORD_SUCCESS)

\* ---- C3
\* lifetime (seconds) of a token, by its type claim
LifetimeOf(tok) ==
    IF tok.type = "refresh" THEN RefreshLifetime
    ELSE IF tok.type = "password_reset" THEN ResetLifetime
    ELSE AccessLifetime

\* the claims' reading of "unexpired": the clock is before issue time + lifetime
Unexpired(cred) == now < cred.issued + LifetimeOf(cred.tok) * Res

RowOfClaim(tok) ==
    IF \E u \in users : u.email = tok.email
    THEN CHOOSE u \in users : u.email = tok.email
    ELSE NoUser

\* the token names an existing user by both its claims
TokenOfUser(tok) ==
    /\ RowOfClaim(tok) # NoUser
    /\ tok.user_id = IntToStr(RowOfClaim(tok).id)

HasTokens(r) == r.access # NoToken \/ r.refresh # NoToken

\* C4: Refresh issues tokens only for a token whose type is "refresh"; an
\* unexpired refresh token of an existing active user is answered 200 with a
\* token pair, an access or password-reset token of such a user 401 with none.
C4_RefreshTypeDiscrimination ==
    req.op = "refresh" =>
        /\ HasTokens(resp) => req.cred.tok.type = "refresh"
        /\ (/\ req.fault = "none"
            /\ req.cred.tok.signed
            /\ Unexpired(req.cred)
            /\ TokenOfUser(req.cred.tok)
            /\ RowOfClaim(req.cred.tok).is_active)
           => IF req.cred.tok.type = "refresh"
              THEN /\ resp.code = HTTP_200_OK
                   /\ resp.status = "success"
                   /\ resp.access.type = "none"
                   /\ resp.refresh.type = "refresh"
              ELSE /\ Outcome(resp) = <<HTTP_401_UNAUTHORIZED, INVALID_REFRESH_TOKEN>>
                   /\ ~HasTokens(resp)

\* C4 witness: an unexpired access or reset token of an active user has been
\* refused by Refresh
C4_Witness ==
    /\ req.op = "refresh"
    /\ req.fault = "none"
    /\ req.cred.tok.signed
    /\ Unexpired(req.cred)
    /\ TokenOfUser(req.cred.tok)
    /\ RowOfClaim(req.cred.tok).is_active
    /\ req.cred.tok.type # "refresh"
    /\ resp.code = HTTP_401_UNAUTHORIZED

\* the accepting half of C4 happens too
C4_WitnessSuccess ==
    /\ req.op = "refresh"
    /\ Unexpired(req.cred)
    /\ TokenOfUser(req.cred.tok)
    /\ req.cred.tok.type = "refresh"
    /\ resp.code = HTTP_200_OK

\* ---- C5
\* C5 as stated: a token issued at t0 with lifetime L passes verification at
\* every T < t0 + L and is rejected as expired at every T >= t0 + L.
C5_ExpiryWindow ==
    (req.op = "auth" /\ req.cred.tok.signed)
    => (resp.message = "Token has expired" <=> ~Unexpired(req.cred))

\* ---- C6
\* C6: for a user with is_active = false, Login with the right password,
\* Refresh with that user's unexpired refresh token and ResetPassword with
\* that user's unexpired reset token are each answered 403; no token is issued
\* and the users table is left as it was.
C6_InactiveGate ==
    [][ /\ (/\ req'.op = "login"
            /\ req'.fault = "none"
            /\ Registered(req'.email)
            /\ ~RowOf(req'.email).is_active
            /\ PlainOf(RowOf(req'.email).password) = req'.password)
           => /\ Outcome(resp') = <<HTTP_403_FORBIDDEN, USER_INACTIVE>>
              /\ ~HasTokens(resp')
              /\ users' = users
        /\ (/\ req'.op \in { "refresh", "reset" }
            /\ req'.fault = "none"
            /\ req'.cred.tok.signed
            /\ req'.cred.tok.type = (IF req'.op = "refresh" THEN "refresh" ELSE "password_reset")
            /\ Unexpired(req'.cred)
            /\ TokenOfUser(req'.cred.tok)
            /\ ~RowOfClaim(req'.cred.tok).is_active)
           => /\ Outcome(resp') = <<HTTP_403_FORBIDDEN, USER_INACTIVE>>
              /\ ~HasTokens(resp')
              /\ users' = users ]_vars

\* C6 witness: ResetPassword with the unexpired reset token of an inactive
\* user has been answered
C6_Witness ==
    /\ req.op = "reset"
    /\ req.fault = "none"
    /\ req.cred.tok.signed
    /\ req.cred.tok.type = "password_reset"
    /\ Unexpired(req.cred)
    /\ TokenOfUser(req.cred.tok)
    /\ ~RowOfClaim(req.cred.tok).is_active
    /\ resp.code = HTTP_403_FORBIDDEN

C6_WitnessLogin ==
    /\ req.op = "login"
    /\ Registered(req.email)
    /\ ~RowOf(req.email).is_active
    /\ PlainOf(RowOf(req.email).password) = req.password
    /\ resp.code = HTTP_403_FORBIDDEN

C6_WitnessRefresh ==
    /\ req.op = "refresh"
    /\ req.cred.tok.type = "refresh"
    /\ Unexpired(req.cred)
    /\ TokenOfUser(req.cred.tok)
    /\ ~RowOfClaim(req.cred.tok).is_active
    /\ resp.code = HTTP_403_FORBIDDEN

\* ---- C7
\* C7: in every state reached by interleaved register requests, no two rows
\* of the users table have the same lowercased, trimmed email.
C7_EmailUnique ==
    \A u1, u2 \in users :
        Strip(Lower(u1.email)) = Strip(Lower(u2.email)) => u1 = u2

\* C7 witness: a register request that had passed the lookup found, at its
\* insert, the email committed by a concurrent request, and was refused
C7_Witness ==
    /\ req.op = "reg_insert"
    /\ req.fault = "none"
    /\ resp.code = HTTP_500_INTERNAL_SERVER_ERROR
    /\ \E u \in users : u.email = req.email

\* ---- C8
\* C8: the existence check of a register request is a step of its own: it is
\* passed exactly when no committed row has the email, it commits nothing, and
\* the insert follows in a later step, so a second request for the same email
\* can pass the check in between.
C8_CheckIsNotInsert ==
    [][ (req = NoReq /\ req'.op = "reg_check" /\ req'.fault = "none")
        => /\ users' = users
           /\ nextId' = nextId
           /\ (pc'[req'.proc] = "insert")
                <=> ~\E u \in users : u.email = Strip(Lower(req'.email)) ]_vars

\* C8 witness: two register requests for the same email have both passed the
\* check and neither has committed a row
C8_Witness ==
    \E p, q \in Procs :
        /\ p # q
        /\ pc[p] = "insert"
        /\ pc[q] = "insert"
        /\ loc[p].email = loc[q].email
        /\ ~\E u \in users : u.email = loc[p].email

\* ---- C9
\* the address a request email stands for, written out case by case
CanonOf(raw) ==
    IF raw \in { <<"a">>, <<"A">>, <<" ", "a", " ">> } THEN <<"a">> ELSE <<"b">>

\* C9: a register request served on its own, for an address no row holds,
\* is answered 201 and adds exactly one row, with that address; once a row
\* holds the address, a register request for it, in whatever case or padding,
\* is answered 400 "User with this email already exists", adds no row and
\* returns no tokens.
C9_RegisterRejectsDuplicate ==
    [][ (req = NoReq /\ req'.op = "register" /\ req'.fault = "none")
        => IF \E u \in users : u.email = CanonOf(req'.email)
           THEN /\ Outcome(resp') = <<HTTP_400_BAD_REQUEST, USER_ALREADY_EXISTS>>
                /\ ~HasTokens(resp')
                /\ users' = users
           ELSE /\ resp'.code = HTTP_201_CREATED
                /\ HasTokens(resp')
                /\ Cardinality(users') = Cardinality(users) + 1
                /\ \E u \in users' \ users : u.email = CanonOf(req'.email) /\ u.id = resp'.user ]_vars

\* C9 witness: after a register request created the row, a second one whose
\* email differs from it in case or padding has been answered 400
C9_Witness ==
    /\ req.op = "register"
    /\ req.fault = "none"
    /\ req.email # CanonOf(req.email)
    /\ \E u \in users : u.email = CanonOf(req.email) /\ u.is_active
    /\ resp.code = HTTP_400_BAD_REQUEST

\* ---- C10
\* C10: ResetPassword with a signed, unexpired password-reset token whose
\* email claim resolves to a user whose id is not the token's user_id claim is
\* answered 400 and leaves every row of the users table as it was.
C10_ResetCrossCheck ==
    [][ (/\ req = NoReq
         /\ req'.op = "reset"
         /\ req'.fault # "db"
         /\ req'.cred.tok.signed
         /\ req'.cred.tok.type = "password_reset"
         /\ Unexpired(req'.cred)
         /\ RowOfClaim(req'.cred.tok) # NoUser
         /\ ~TokenOfUser(req'.cred.tok))
        => /\ Outcome(resp') = <<HTTP_400_BAD_REQUEST, INVALID_REFRESH_TOKEN>>
           /\ users' = users ]_vars

\* C10 witness: a reset token naming user 2 by id and active user 1 by email
\* has been refused
C10_Witness ==
    /\ req.op = "reset"
    /\ req.fault = "none"
    /\ req.cred.tok.signed
    /\ req.cred.tok.type = "password_reset"
    /\ Unexpired(req.cred)
    /\ RowOfClaim(req.cred.tok) # NoUser
    /\ RowOfClaim(req.cred.tok).is_active
    /\ \E u \in users : u # RowOfClaim(req.cred.tok) /\ IntToStr(u.id) = req.cred.tok.user_id
    /\ resp.code = HTTP_400_BAD_REQUEST

\* ---- C11
\* C11: a reset link is not used up by a successful ResetPassword: a further
\* ResetPassword with the same token, before the token expires and while the
\* user is active, is answered 200 again and stores the hash of the password
\* it was given.
C11_ResetNotSingleUse ==
    [][ (/\ req = NoReq
         /\ req'.op = "reset"
         /\ req'.cred.tok = held.reset
         /\ held.resetUses >= 1
         /\ Unexpired(req'.cred)
         /\ RowOfClaim(held.reset).is_active)
        => /\ Outcome(resp') = <<HTTP_200_OK, PASSWORD_CHANGED_SUCCESS>>
           /\ \E u \in users' : /\ IntToStr(u.id) = held.reset.user_id
                                /\ PlainOf(u.password) = req'.new_password ]_vars

\* C11 witness: the same reset token has succeeded a second time and the
\* password of that use is the stored one
C11_Witness ==
    /\ req.op = "reset"
    /\ req.cred.tok = held.reset
    /\ held.resetUses = 2
    /\ resp.code = HTTP_200_OK
    /\ \E u \in users : IntToStr(u.id) = held.reset.user_id /\ PlainOf(u.password) = req.new_password

\* ---- C12
\* C12: whatever Login, Refresh, ForgetPassword and ResetPassword requests
\* have been served since it was issued, a refresh token that has not expired
\* and whose user exists and is active is accepted by Refresh: the answer is
\* 200 with a token pair, also after a Refresh has already rotated it and
\* after the user's password has been changed.
C12_NoRevocation ==
    (/\ req.op = "refresh"
     /\ req.cred.tok = held.refresh
     /\ Unexpired(req.cred)
     /\ RowOfClaim(held.refresh) # NoUser
     /\ RowOfClaim(held.refresh).is_active)
    => /\ Outcome(resp) = <<HTTP_200_OK, REFRESH_TOKEN_SUCCESS>>
       /\ resp.access.type = "none"
       /\ resp.refresh.type = "refresh"

\* C12 witness: a refresh token issued at the start has been accepted at a
\* later clock reading, after an earlier Refresh with it had succeeded and
\* after its user's password had been reset
C12_Witness ==
    /\ req.op = "refresh"
    /\ req.cred.tok = held.refresh
    /\ held.renewed # NoToken
    /\ held.renewedAt < now
    /\ held.changed
    /\ resp.code = HTTP_200_OK

\* ---- C13
\* C13 as stated: whenever Refresh succeeds with the refresh token that a
\* Register or Login response returned, the access token of its result
\* differs from the access token of that response, however soon after it
\* Refresh is called.
C13_RefreshReturnsNewAccessToken ==
    (/\ req.op = "refresh"
     /\ held.by \in { "register", "login" }
     /\ req.cred.tok = held.refresh
     /\ resp.code = HTTP_200_OK)
    => resp.access # held.access

C14_WitnessLogin ==
    /\ req.op = "auth"
    /\ held.by = "login"
    /\ req.cred.tok = held.access
    /\ resp.user = held.uid

\* and for the access token of a refresh response, issued a lifetime later
\* than the pair it renews
C14_WitnessRefresh ==
    /\ req.op = "auth"
    /\ req.cred.tok = held.renewed
    /\ held.renewed # held.access
    /\ resp.user = held.uid

\* ---- C15
\* what the request r is answered in the users table tbl at clock t when no
\* collaborator fails
Unfaulted(r, tbl, t) ==
    IF r.op = "register"
    THEN LET c == RegisterCheck(tbl, r.email, "none")
         IN IF c.go
            THEN RegisterInsert(tbl, nextId, t, Strip(Lower(r.email)), r.password, "s1", "none").resp
            ELSE c.resp
    ELSE IF r.op = "login" THEN login_user_service(tbl, t, r.email, r.password, "none")
    ELSE IF r.op = "refresh" THEN refresh_token_service(tbl, t, r.cred, "none")
    ELSE IF r.op = "forget" THEN forget_password_service(tbl, t, r.email, "none").resp
    ELSE reset_password_service(tbl, t, r.cred, r.new_password, "s1", "none").resp

\* C15 as stated: when a collaborator (persistence store, hasher, token
\* issuer, email sender) fails during Register, Login, Refresh, ForgetPassword
\* or ResetPassword, the workflow still returns a result, and unless it had
\* already returned before the failing step, the result is 500 with the one
\* generic message.
C15_CatchAllMapping ==
    [][ (/\ req = NoReq
         /\ req'.op \in { "register", "login", "refresh", "forget", "reset" }
         /\ req'.fault # "none")
        => \/ resp' = Plain(HTTP_500_INTERNAL_SERVER_ERROR, SOMETHING_WENT_WRONG)
           \/ resp' = Unfaulted(req', users, now) ]_vars

\* ---- C16
\* the user_id claim is the decimal numeral of the id of a row of the table
NamesUser(tok) == \E u \in users : IntToStr(u.id) = tok.user_id

\* C16: get_current_user either returns a user or rejects with 401: a token
\* with a bad signature, an expired token, a token without user_id, a user_id
\* that is no integer, the id of no user and a failure of the user lookup are
\* all answered 401; every other request is answered with the user the
\* user_id claim names.
C16_AuthenticatorOutcomes ==
    req.op = "auth" =>
        IF \/ ~req.cred.tok.signed
           \/ JwtExpired(req.cred.tok, now)
           \/ req.cred.tok.user_id \in { None, EmptyStr }
           \/ ~NamesUser(req.cred.tok)
           \/ req.fault = "db"
        THEN resp.code = HTTP_401_UNAUTHORIZED /\ resp.user = 0
        ELSE resp.code = HTTP_200_OK /\ IntToStr(resp.user) = req.cred.tok.user_id

\* C16 witness: the lookup of an existing user failed and the request was
\* answered 401
C16_Witness ==
    /\ req.op = "auth"
    /\ req.fault = "db"
    /\ req.cred.tok.signed
    /\ ~JwtExpired(req.cred.tok, now)
    /\ NamesUser(req.cred.tok)
    /\ resp.code = HTTP_401_UNAUTHORIZED

\* each of the other rejections happens, and so does the acceptance
C16_WitnessNoUserId ==
    req.op = "auth" /\ req.cred.tok.signed /\ req.cred.tok.user_id = None
    /\ resp.message = "Invalid token: no user_id found"

C16_WitnessNotAnInteger ==
    req.op = "auth" /\ req.cred.tok.user_id = <<"x">>
    /\ resp.message = "Invalid token: invalid user_id format"

C16_WitnessUnknownId ==
    req.op = "auth" /\ users # {} /\ resp.message = "User not found"

C16_WitnessReturnsUser ==
    req.op = "auth" /\ resp.code = HTTP_200_OK /\ resp.user = 2

\* ---- C17
\* the role a stored role name stands for, written out name by name
CanonRole(name) ==
    IF name \in { <<"a", "d", "m", "i", "n">>, <<"A", "d", "m", "i", "n">> } THEN "admin"
    ELSE IF name \in { <<"m", "a", "n", "a", "g", "e", "m", "e", "n", "t">>,
                       <<"M", "A", "N", "A", "G", "E", "M", "E", "N", "T">> } THEN "management"
    ELSE IF name \in { <<"s", "a", "l", "e", "s">>, <<"S", "a", "l", "e", "s">> } THEN "sales"
    ELSE IF name = <<"s", "t", "a", "f", "f">> THEN "staff"
    ELSE "other"

\* the allow-set of a permission name, written out
AllowSet(p) ==
    IF p \in { "product_read", "supplier_read" } THEN { "management", "sales", "staff", "admin" }
    ELSE IF p \in { "product_create", "supplier_delete" } THEN { "management", "admin" }
    ELSE {}

C17_WitnessUnmapped ==
    /\ req.op = "permission"
    /\ req.permission = "course_read"
    /\ \/ req.user.role.name = <<"A", "d", "m", "i", "n">> /\ resp.code = HTTP_200_OK
       \/ req.user.role.name = <<"s", "t", "a", "f", "f">> /\ resp.code = HTTP_403_FORBIDDEN

C17_WitnessNoRole ==
    /\ req.op = "permission"
    /\ req.user.role_id = 0
    /\ resp.message = "Access denied: No role assigned"

\* ---- C18
\* a value of the password column that is the plaintext p itself
AsGiven(p) == { [alg |-> "plain", salt |-> s, digest |-> <<s, p>>] : s \in Salts }

\* C18: in every state reached by Register and ResetPassword requests the
\* password column of every row holds a bcrypt hash under one of the salts,
\* never a plaintext; the row a successful Register or ResetPassword has just
\* written holds the hash of the password that request supplied.
C18_PasswordAtRest ==
    /\ \A u \in users :
          /\ u.password.alg = "bcrypt"
          /\ u.password.salt \in Salts
          /\ u.password.digest = <<u.password.salt, PlainOf(u.password)>>
          /\ \A p \in Passwords : u.password \notin AsGiven(p)
    /\ (req.op = "register" /\ resp.code = HTTP_201_CREATED)
       => \E u \in users : /\ u.id = resp.user
                           /\ u.password.alg = "bcrypt"
                           /\ u.password.digest = <<u.password.salt, req.password>>
    /\ (req.op = "reset" /\ resp.code = HTTP_200_OK)
       => \E u \in users : /\ u.email = req.cred.tok.email
                           /\ u.password.alg = "bcrypt"
                           /\ u.password.digest = <<u.password.salt, req.new_password>>

\* C18 witness: a row written by Register has had its password replaced by
\* ResetPassword, under another salt
C18_Witness ==
    /\ req.op = "reset"
    /\ resp.code = HTTP_200_OK
    /\ \E u \in users : /\ u.email = req.cred.tok.email
                        /\ u.password.salt = "s2"
                        /\ PlainOf(u.password) = req.new_password

\* ---- C19
\* C19: after Register(e, p) has succeeded (and until the password is reset),
\* Login(e', p) for every e' that is e up to case and padding is answered 200
\* with the registered user's id and a token pair carrying that id and the
\* stored email, and Login(e', p2) with any other password is answered 401.
C19_RegisterThenLogin ==
    [][ (/\ req = NoReq
         /\ req'.op = "login"
         /\ held.by = "register"
         /\ ~held.changed
         /\ CanonOf(req'.email) = held.access.email)
        => IF req'.password = held.password
           THEN /\ Outcome(resp') = <<HTTP_200_OK, LOGIN_SUCCESS>>
                /\ resp'.user = held.uid
                /\ resp'.access.type = "none"
                /\ resp'.refresh.type = "refresh"
                /\ \A tok \in { resp'.access, resp'.refresh } :
                      tok.user_id = IntToStr(held.uid) /\ tok.email = held.access.email
           ELSE /\ Outcome(resp') = <<HTTP_401_UNAUTHORIZED, INVALID_EMAIL_OR_PASSWORD>>
                /\ ~HasTokens(resp') ]_vars

\* C19 witness: a login with the registered password and the registered
\* address in another case or padding has been answered 200
C19_Witness ==
    /\ req.op = "login"
    /\ held.by = "register"
    /\ ~held.changed
    /\ req.email # held.access.email
    /\ CanonOf(req.email) = held.access.email
    /\ req.password = held.password
    /\ resp.code = HTTP_200_OK
    /\ resp.user = held.uid

\* and one with another password 401
C19_WitnessWrongPassword ==
    /\ req.op = "login"
    /\ held.by = "register"
    /\ ~held.changed
    /\ CanonOf(req.email) = held.access.email
    /\ req.password # held.password
    /\ resp.code = HTTP_401_UNAUTHORIZED

\* ---- C20
\* C20 as stated: Refresh succeeds only if a user with the token's email claim
\* exists and that user's id is the token's user_id claim; the new access and
\* refresh tokens then carry that user's id and email; when no user has the
\* email of an otherwise valid refresh token the answer is 401 "User not found".
C20_RefreshUsesClaimsPair ==
    (req.op = "refresh" /\ req.fault = "none") =>
        /\ resp.code = HTTP_200_OK =>
              /\ RowOfClaim(req.cred.tok) # NoUser
              /\ IntToStr(RowOfClaim(req.cred.tok).id) = req.cred.tok.user_id
              /\ \A tok \in { resp.access, resp.refresh } :
                    /\ tok.user_id = IntToStr(RowOfClaim(req.cred.tok).id)
                    /\ tok.email = RowOfClaim(req.cred.tok).email
        /\ (/\ req.cred.tok.signed
            /\ req.cred.tok.type = "refresh"
            /\ Unexpired(req.cred)
            /\ ~Falsy(req.cred.tok.user_id)
            /\ ~Falsy(req.cred.tok.email)
            /\ RowOfClaim(req.cred.tok) = NoUser)
           => Outcome(resp) = <<HTTP_401_UNAUTHORIZED, USER_NOT_FOUND>>

\* ---- C21
\* C21: ForgetPassword hands a mail to the sender only when the address the
\* request email stands for is that of a row with is_active = true; the mail
\* goes to that row's email and its token is a password-reset token carrying
\* that row's id and email; for an address of no row or of an inactive row
\* nothing is handed to the sender; for an active row, with no collaborator
\* failing, the mail is sent.
C21_ResetTokenOnlyForActive ==
    req.op = "forget" =>
        LET rows == { u \in users : u.email = CanonOf(req.email) }
        IN /\ sent # NoMail =>
                \E u \in rows :
                    /\ u.is_active
                    /\ sent.to = u.email
                    /\ sent.token.type = "password_reset"
                    /\ sent.token.signed
                    /\ sent.token.user_id = IntToStr(u.id)
                    /\ sent.token.email = u.email
           /\ (rows = {} \/ \E u \in rows : ~u.is_active) => sent = NoMail
           /\ (req.fault = "none" /\ \E u \in rows : u.is_active) => sent # NoMail

\* C21 witness: a request for the address of an inactive account was
\* answered 200 and nothing was sent, while an active account exists
C21_Witness ==
    /\ req.op = "forget"
    /\ req.fault = "none"
    /\ \E u \in users : u.email = CanonOf(req.email) /\ ~u.is_active
    /\ \E u \in users : u.is_active
    /\ resp.code = HTTP_200_OK
    /\ sent = NoMail

\* the mail is sent for an active account with id 2, asked for in upper case
C21_WitnessSent ==
    /\ req.op = "forget"
    /\ req.email # CanonOf(req.email)
    /\ sent # NoMail
    /\ sent.token.user_id = <<"2">>

\* ---- C22
\* the row a reset request's token names by both claims
ResetTarget(r) ==
    CHOOSE u \in users : u.email = r.cred.tok.email /\ IntToStr(u.id) = r.cred.tok.user_id

\* effect and frame of a successful ResetPassword; `strict` also asks that a
\* login with the previous password is then refused
ResetEffect(strict) ==
    (/\ req = NoReq
     /\ req'.op = "reset"
     /\ resp'.code = HTTP_200_OK)
    => /\ \E u \in users : u.email = req'.cred.tok.email /\ IntToStr(u.id) = req'.cred.tok.user_id
       /\ LET u == ResetTarget(req')
              old == PlainOf(u.password)
          IN /\ \E v \in users' :
                   /\ users' = (users \ { u }) \cup { v }
                   /\ v.id = u.id
                   /\ v.email = u.email
                   /\ v.is_active = u.is_active
                   /\ v.is_verified = u.is_verified
                   /\ v.password.alg = "bcrypt"
                   /\ PlainOf(v.password) = req'.new_password
             /\ LET r == login_user_service(users', now', u.email, req'.new_password, "none")
                IN /\ r.code = HTTP_200_OK
                   /\ r.user = u.id
                   /\ HasTokens(r)
             /\ (strict \/ old # req'.new_password)
                => Outcome(login_user_service(users', now', u.email, old, "none"))
                     = <<HTTP_401_UNAUTHORIZED, INVALID_EMAIL_OR_PASSWORD>>

\* C22 (as amended): a successful ResetPassword changes only the password
\* field of the user its token names; Login for that user then succeeds with
\* the new password and, when the previous password is another one, is
\* refused 401 with the previous password; every other row and that row's
\* email, is_active and is_verified are as before.
C22_ResetEffectAndFrame == [][ResetEffect(FALSE)]_vars

\* C22 as stated: ... and Login with the previous password returns
\* Unauthorized, whatever the new password is.
C22_ResetEffectAndFrameOriginal == [][ResetEffect(TRUE)]_vars

\* C22 witness: with two rows in the table, one user's password has been
\* replaced by another one
C22_Witness ==
    /\ req.op = "reset"
    /\ resp.code = HTTP_200_OK
    /\ Cardinality(users) = 2
    /\ \E u \in users : /\ u.email = req.cred.tok.email
                        /\ PlainOf(u.password) = req.new_password
                        /\ u.password.salt = "s2"
                        /\ u.password # hash_password("pw1", "s1")

\* ---- C23
\* C23: ResetPassword called with a validly signed, unexpired access token or
\* refresh token of an existing active user is answered 400, whatever else
\* happens to fail, and leaves the users table as it was.
C23_ResetAcceptsOnlyResetTokens ==
    [][ (/\ req = NoReq
         /\ req'.op = "reset"
         /\ req'.cred.tok.signed
         /\ req'.cred.tok.type \in { "none", "refresh" }
         /\ Unexpired(req'.cred)
         /\ TokenOfUser(req'.cred.tok)
         /\ RowOfClaim(req'.cred.tok).is_active)
        => /\ resp'.code = HTTP_400_BAD_REQUEST
           /\ resp'.status = "fail"
           /\ users' = users ]_vars

\* C23 witness: the refresh token of an active user, whose stored password is
\* not the one asked for, has been refused by ResetPassword
C23_Witness ==
    /\ req.op = "reset"
    /\ req.fault = "none"
    /\ req.cred.tok.signed
    /\ req.cred.tok.type = "refresh"
    /\ Unexpired(req.cred)
    /\ TokenOfUser(req.cred.tok)
    /\ RowOfClaim(req.cred.tok).is_active
    /\ PlainOf(RowOfClaim(req.cred.tok).password) # req.new_password
    /\ resp.code = HTTP_400_BAD_REQUEST

\* the same for an access token
C23_WitnessAccess ==
    /\ req.op = "reset"
    /\ req.cred.tok.signed
    /\ req.cred.tok.type = "none"
    /\ Unexpired(req.cred)
    /\ TokenOfUser(req.cred.tok)
    /\ RowOfClaim(req.cred.tok).is_active
    /\ resp.code = HTTP_400_BAD_REQUEST

\* ---- C24
\* C24 as stated: whenever Register or ResetPassword returns a failure, the
\* 500 of a failing collaborator at any step included, the users table is as
\* it was before the request: no row created, no password changed.
C24_FailureLeavesDirectoryUnchanged ==
    [][ (/\ req = NoReq
         /\ req'.op \in { "register", "reset" }
         /\ resp'.status = "fail")
        => users' = users ]_vars

\* the part of C24 about ResetPassword alone
C24_FailedResetKeepsPasswords ==
    [][ (/\ req = NoReq
         /\ req'.op = "reset"
         /\ resp'.status = "fail")
        => users' = users ]_vars

\* the part of C24 about Register alone
C24_FailedRegisterCreatesNoRow ==
    [][ (/\ req = NoReq
         /\ req'.op = "register"
         /\ resp'.status = "fail")
        => users' = users ]_vars

\* ---- C25
\* the row of tbl with the id of u, NoUser when there is none
SameId(tbl, u) ==
    IF \E v \in tbl : v.id = u.id THEN CHOOSE v \in tbl : v.id = u.id ELSE NoUser

\* C25: Login, Refresh, ForgetPassword and get_current_user leave the users
\* table as it is, whatever they answer; no step removes a row or writes
\* refresh_token or refresh_token_expires_at; a row appears only by Register,
\* with both of these NULL, and the only column of an existing row that ever
\* changes is password, by ResetPassword.
C25_ReadOnlyWorkflows ==
    [][ /\ (req = NoReq /\ req'.op \in { "login", "refresh", "forget", "auth" })
           => users' = users
        /\ \A u \in users :
              /\ SameId(users', u) # NoUser
              /\ SameId(users', u) = [u EXCEPT !.password = SameId(users', u).password]
              /\ SameId(users', u) # u => req'.op = "reset"
        /\ \A v \in users' :
              SameId(users, v) = NoUser
              => /\ req'.op = "register"
                 /\ v.refresh_token = None
                 /\ v.refresh_token_expires_at = None ]_vars

\* C25 witness: a login has been answered with tokens while the table
\* holds a registered user next to the fixture, and no row stores a token
C25_Witness ==
    /\ req.op = "login"
    /\ resp.code = HTTP_200_OK
    /\ resp.refresh # NoToken
    /\ Cardinality(users) >= 2
    /\ \A u \in users : u.refresh_token = None

\* the same for a refresh, a forgotten password and get_current_user
C25_WitnessRefresh == req.op = "refresh" /\ resp.code = HTTP_200_OK /\ resp.refresh # NoToken

C25_WitnessForget == req.op = "forget" /\ sent # NoMail

C25_WitnessAuth == req.op = "auth" /\ resp.code = HTTP_200_OK

Enrolled(tbl, c) == { s \in tbl : s.course_id = c.id }

\* C27 as stated: from a state where every course's students counter is the
\* number of student rows referencing the course, any sequence of successful
\* create_student, update_student and delete_student requests leads to a
\* state where it still is.
C27_StudentCountInvariant ==
    \A c \in courses : c.students = Cardinality(Enrolled(students, c))

\* create_student on its own keeps the counters right
C27_CreateKeepsCount ==
    [][ (\A c \in courses : c.students = Cardinality(Enrolled(students, c)))
        /\ req'.op = "create_student"
        => \A c \in courses' : c.students = Cardinality(Enrolled(students', c)) ]_vars

\* ---- C28
\* the counter of the course with this id, 0 when there is no such course
CountOf(tbl, id) ==
    IF \E c \in tbl : c.id = id THEN (CHOOSE c \in tbl : c.id = id).students ELSE 0

\* the course of the student with this id, NULL when there is none
CourseOfStudent(tbl, id) ==
    IF \E s \in tbl : s.id = id THEN (CHOOSE s \in tbl : s.id = id).course_id ELSE NULL

\* C28 as stated: a successful update_student that moves the student from
\* course A to another course B takes 1 from A's counter, not below 0, and
\* adds 1 to B's counter; one that leaves the student's course as it was,
\* an update without course_id included, changes no counter.
C28_CountersFollowCourseChange ==
    [][ (/\ req = NoReq
         /\ req'.op = "update_student"
         /\ resp'.code = HTTP_200_OK)
        => LET A == CourseOfStudent(students, req'.student_id)
               B == CourseOfStudent(students', req'.student_id)
           IN IF A # B
              THEN \A c \in courses :
                      CountOf(courses', c.id) =
                          IF c.id = A THEN (IF c.students >= 1 THEN c.students - 1 ELSE 0)
                          ELSE IF c.id = B THEN c.students + 1
                          ELSE c.students
              ELSE courses' = courses ]_vars

\* the part of C28 about updates that set course_id holds
C28_SetCourseIdAdjusts ==
    [][ (/\ req = NoReq
         /\ req'.op = "update_student"
         /\ "course_id" \in req'.data.keys
         /\ resp'.code = HTTP_200_OK)
        => LET A == CourseOfStudent(students, req'.student_id)
               B == CourseOfStudent(students', req'.student_id)
           IN IF A # B
              THEN \A c \in courses :
                      CountOf(courses', c.id) =
                          IF c.id = A THEN (IF c.students >= 1 THEN c.students - 1 ELSE 0)
                          ELSE IF c.id = B THEN c.students + 1
                          ELSE c.students
              ELSE courses' = courses ]_vars

\* ---- C29
\* C29 as stated: concurrent create_student requests for different emails
\* and the same course that all return 201 raise the course's counter by
\* their number, however their reads and writes of the counter interleave.
\* The counters start at the enrolment and only create_student runs, so,
\* once no request is in flight, every counter is the enrolment again.
C29_NoLostCounterUpdates ==
    (\A p \in Procs : pc[p] = "idle")
    => \A c \in courses : c.students = Cardinality(Enrolled(students, c))

\* ---- C30
\* C30 as stated: whatever create_course and update_course requests have
\* run, one after the other or interleaved, no two course rows have the same
\* name.
C30_CourseNameUnique ==
    \A c1, c2 \in courses : c1.name = c2.name => c1.id = c2.id

\* the second half of C30 holds: create_course with a name that some row has
\* is answered 400 "Course with this name already exists" and adds no row
C30_DuplicateNameRefused ==
    [][ (/\ req = NoReq
         /\ req'.op = "course_check"
         /\ \E c \in courses : c.name = req'.data.name)
        => /\ resp' = Plain(HTTP_400_BAD_REQUEST, "Course with this name already exists")
           /\ pc'[req'.proc] = "idle"
           /\ courses' = courses ]_vars

\* update_course alone breaks the uniqueness, with no request in flight
C30_UniqueUnderUpdate ==
    [][ req'.op = "update_course"
        => ((\A c1, c2 \in courses : c1.name = c2.name => c1.id = c2.id)
            => (\A c1, c2 \in courses' : c1.name = c2.name => c1.id = c2.id)) ]_vars

====
